---- MODULE Spec2Model ----
(***************************************************************************)
(* Workspace Context Engine of refact-lsp: the document registry           *)
(* (src/src/files_in_workspace.rs), its filename correction cache, the     *)
(* filesystem watcher and the re-enumeration of the workspace folders.     *)
(*                                                                         *)
(* A path or file name is a sequence of one-character strings, so that     *)
(* the suffix chopping of the cache rebuild and the edit distance of the   *)
(* fuzzy search are computed character by character as the code does.      *)
(***************************************************************************)
EXTENDS Integers, Sequences, FiniteSets, TLC

(***************************************************************************)
(* Bounds of the model.                                                    *)
(***************************************************************************)
\* the largest top_n a caller of correct_to_nearest_filename passes
MaxTopN == 3
\* number of registry operations (editor notifications, folder operations,
\* re-enumerations, cache lookups) started in one behaviour
MaxOps == 3
\* number of changes made to the files on disk in one behaviour
MaxDiskOps == 2
\* the most paths one watcher event lists
MaxEventPaths == 2

(***************************************************************************)
(* Paths.                                                                  *)
(***************************************************************************)
P_frog  == <<"/","a","/","b","/","c","/","f","r","o","g",".","p","y">>
P_toad  == <<"/","a","/","b","/","d","/","t","o","a","d",".","p","y">>
P_frog2 == <<"/","a","/","e","/","f","r","o","g",".","p","y">>
P_win   == <<"/","w","\\","t","o",".","p","y">>

\* the paths the filename cache is exercised with: workspace files, and
\* documents open in the editor
FuzzyPaths == {P_frog, P_toad, P_frog2}
FuzzyMemoryPaths == {P_frog2, P_win}

\* the names looked up in the filename cache
FuzzyQueries ==
    { <<"f","r","o","g">>,
      <<"t","o","d",".","p","y">>,
      <<"f","r","o","g",".","p","y">>,
      <<"d","/","t","o","a","d",".","p","y">>,
      <<"t","o",".","p","y">>,
      P_frog2 }

\* the workspace the registry is run on: a folder, a folder nested in it, a
\* file in each (the two share the tail "x"), a file inside a blacklisted
\* directory, and a document the editor opens outside the workspace
D_a   == <<"/","a">>
D_ab  == <<"/","a","/","b">>
F_ax  == <<"/","a","/","x">>
F_abx == <<"/","a","/","b","/","x">>
F_git == <<"/","a","/",".","g","i","t","/","x">>
F_m   == <<"/","m">>

Folders == {D_a, D_ab}
\* the files that may exist on disk, in the order an enumeration lists them
DiskOrder == <<F_abx, F_ax, F_git>>
DiskFiles == {F_abx, F_ax, F_git}
\* the files that are created, changed and removed while the watcher runs
ChangingFiles == {F_ax, F_git}
\* the documents the editor opens, changes and deletes, and their texts
EditorPaths == {F_ax, F_m}
Texts == {"t1", "t2"}

(***************************************************************************)
(* Sequence helpers.                                                       *)
(***************************************************************************)
Range(s) == { s[i] : i \in DOMAIN s }

Min2(a, b) == IF a <= b THEN a ELSE b

MaxOf(S) == CHOOSE x \in S : \A y \in S : y <= x

\* every sequence that lists each element of S exactly once
Perms(S) ==
    { s \in [1..Cardinality(S) -> S] : \A i, j \in DOMAIN s : s[i] = s[j] => i = j }

\* every sequence without repetition over a subset of S
NoDupSeqs(S) == UNION { Perms(T) : T \in SUBSET S }

\* HashMap::insert
MapInsert(m, k, v) == [x \in (DOMAIN m) \cup {k} |-> IF x = k THEN v ELSE m[x]]

EmptyMap == [x \in {} |-> <<>>]

(***************************************************************************)
(* files_cache_rebuild_as_needed, lines 53-76: the two caches built from   *)
(* the registered paths.                                                   *)
(***************************************************************************)
IsSlash(c) == c = "/" \/ c = "\\"

\* Path::file_name on a Unix build: what follows the last '/'
FileName(path) ==
    LET cut == { i \in DOMAIN path : path[i] = "/" }
    IN  IF cut = {} THEN path ELSE SubSeq(path, MaxOf(cut) + 1, Len(path))

\* lines 66-74: "chop off directory names one by one": the non-empty tails that
\* start right after a '/' or a '\', longest first
SlashSuffixes(path_str) ==
    LET RECURSIVE Chop(_)
        Chop(index) ==
            LET rest == { i \in index..Len(path_str) : IsSlash(path_str[i]) }
            IN  IF rest = {} THEN <<>>
                ELSE LET absolute_slashpos == CHOOSE i \in rest : \A j \in rest : i <= j
                         slashpos_to_end == SubSeq(path_str, absolute_slashpos + 1, Len(path_str))
                     IN  (IF slashpos_to_end # <<>> THEN <<slashpos_to_end>> ELSE <<>>)
                         \o Chop(absolute_slashpos + 1)
    IN  Chop(1)

\* lines 64-74 for one path: the path itself, then each of its tails
InsertPathMutantNoTails(cache_correction, path_str) ==
    MapInsert(cache_correction, path_str, path_str)

InsertPath(cache_correction, path_str) ==
    LET tails == SlashSuffixes(path_str)
        RECURSIVE Ins(_, _)
        Ins(m, i) == IF i > Len(tails) THEN m
                     ELSE Ins(MapInsert(m, tails[i], path_str), i + 1)
    IN  Ins(MapInsert(cache_correction, path_str, path_str), 1)

\* lines 53-75: cache_correction after the loop over paths_from_anywhere
BuildCacheCorrection(paths_from_anywhere) ==
    LET RECURSIVE Loop(_, _)
        Loop(m, i) == IF i > Len(paths_from_anywhere) THEN m
                      ELSE Loop(InsertPath(m, paths_from_anywhere[i]), i + 1)
    IN  Loop(EmptyMap, 1)

\* lines 54, 61: cache_fuzzy_set, the distinct bare file names
BuildCacheFuzzySet(paths_from_anywhere) ==
    { FileName(p) : p \in Range(paths_from_anywhere) }

(***************************************************************************)
(* strsim::normalized_damerau_levenshtein, as called at line 114.  The     *)
(* similarity 1 - dist / max(len) is kept as the fraction                  *)
(* <<max(len) - dist, max(len)>>; two empty strings have similarity 1.      *)
(***************************************************************************)
DamerauLevenshtein(a, b) ==
    LET \* rows[r + 1][c + 1] is the distance of the first r elements of a to
        \* the first c elements of b
        RECURSIVE Cells(_, _, _)
        Cells(rows, row, j) ==
            IF j > Len(b) THEN row
            ELSE LET i    == Len(rows)
                     cost == IF a[i] = b[j] THEN 0 ELSE 1
                     base == Min2(Min2(rows[i][j + 1] + 1, row[j] + 1), rows[i][j] + cost)
                     ks   == { k \in 1..(i - 1) : a[k] = b[j] }
                     ls   == { l \in 1..(j - 1) : b[l] = a[i] }
                     cell == IF ks # {} /\ ls # {}
                             THEN LET k == MaxOf(ks)
                                      l == MaxOf(ls)
                                  IN  Min2(base, rows[k][l] + (i - k - 1) + 1 + (j - l - 1))
                             ELSE base
                 IN  Cells(rows, Append(row, cell), j + 1)
        RECURSIVE Rows(_)
        Rows(rows) ==
            IF Len(rows) > Len(a) THEN rows
            ELSE Rows(Append(rows, Cells(rows, <<Len(rows)>>, 1)))
        all == Rows(<< [c \in 1..(Len(b) + 1) |-> c - 1] >>)
    IN  all[Len(a) + 1][Len(b) + 1]

NormalizedDamerauLevenshtein(a, b) ==
    IF a = <<>> /\ b = <<>> THEN <<1, 1>>
    ELSE LET longest == IF Len(a) >= Len(b) THEN Len(a) ELSE Len(b)
         IN  <<longest - DamerauLevenshtein(a, b), longest>>

\* x > y on two similarities
SimGreater(x, y) == x[1] * y[2] > y[1] * x[2]

(***************************************************************************)
(* correct_to_nearest_filename, lines 103-132.                             *)
(***************************************************************************)
\* line 117: sort_by(|a, b| b.1.partial_cmp(&a.1)): a stable sort, greatest
\* similarity first
SortBySimilarityDesc(records) ==
    LET RECURSIVE Place(_, _)
        \* put r behind every record that is not smaller than it
        Place(sorted, r) ==
            IF sorted = <<>> THEN <<r>>
            ELSE IF SimGreater(r[2], sorted[1][2]) THEN <<r>> \o sorted
            ELSE <<sorted[1]>> \o Place(Tail(sorted), r)
        RECURSIVE Sort(_, _)
        Sort(sorted, i) == IF i > Len(records) THEN sorted
                           ELSE Sort(Place(sorted, records[i]), i + 1)
    IN  Sort(<<>>, 1)

\* lines 115-119: one iteration of the loop over cache_fuzzy
PushAndPrune(top_n_records, rec, top_n) ==
    LET pushed == Append(top_n_records, rec)
    IN  IF Len(pushed) >= top_n
        THEN LET sorted == SortBySimilarityDesc(pushed)
             IN  SubSeq(sorted, 1, Len(sorted) - 1)
        ELSE pushed

\* lines 112-120: top_n_records after the loop
TopNRecords(cache_fuzzy, correction_candidate, top_n) ==
    LET RECURSIVE Loop(_, _)
        Loop(recs, i) ==
            IF i > Len(cache_fuzzy) THEN recs
            ELSE Loop(PushAndPrune(recs,
                                   <<cache_fuzzy[i],
                                     NormalizedDamerauLevenshtein(correction_candidate, cache_fuzzy[i])>>,
                                   top_n),
                      i + 1)
    IN  Loop(<<>>, 1)

\* lines 122-128: each bare name mapped back through cache_correction
SortedPaths(cache_correction, top_n_records) ==
    [i \in DOMAIN top_n_records |->
        IF top_n_records[i][1] \in DOMAIN cache_correction
        THEN cache_correction[top_n_records[i][1]]
        ELSE top_n_records[i][1]]

\* lines 103-105: the exact match
ExactMatch(cache_correction, correction_candidate) ==
    correction_candidate \in DOMAIN cache_correction

\* the exact match skipped when a fuzzy search is asked for
CorrectToNearestFilenameMutantFuzzyFirst(cache_correction, cache_fuzzy, correction_candidate, fuzzy, top_n) ==
    IF fuzzy
    THEN SortedPaths(cache_correction, TopNRecords(cache_fuzzy, correction_candidate, top_n))
    ELSE IF ExactMatch(cache_correction, correction_candidate)
    THEN <<cache_correction[correction_candidate]>>
    ELSE <<>>

\* lines 103-132, on the caches files_cache_rebuild_as_needed returned
CorrectToNearestFilename(cache_correction, cache_fuzzy, correction_candidate, fuzzy, top_n) ==
    IF ExactMatch(cache_correction, correction_candidate)
    THEN <<cache_correction[correction_candidate]>>
    ELSE IF fuzzy
    THEN SortedPaths(cache_correction, TopNRecords(cache_fuzzy, correction_candidate, top_n))
    ELSE <<>>

(***************************************************************************)
(* State.                                                                  *)
(***************************************************************************)
VARIABLES
    \* DocumentsState, lines 233-246
    workspace_folders,      \* Vec<PathBuf>
    workspace_files,        \* Vec<PathBuf>
    memory_document_map,    \* HashMap<PathBuf, Document>: path -> text
    cache_dirty,            \* the bool inside the AMutex
    cache_dirty_owner,      \* who holds the AMutex guard, or "none"
    cache_correction,       \* HashMap<String, String>
    cache_fuzzy,            \* Vec<String>
    total_reset,
    total_reset_ts,
    \* GlobalContext
    gcx_writer,             \* who holds the write guard of the ARwLock, or "none"
    vec_db,                 \* gcx.vec_db: "none" or the installed VecDb, "db1"
    ast_module,             \* gcx.ast_module is Some
    \* the indexes' input queues and what the indexes were told
    vec_queue,              \* paths handed to vectorizer_enqueue_files
    vec_removed,            \* paths handed to VecDb::remove_file
    ast_queue,              \* paths handed to ast_indexer_enqueue_files
    ast_removed,            \* paths handed to ast_remove_file
    ast_resets,             \* number of ast_reset_index calls
    \* the environment
    disk,                   \* the files that exist on disk
    events,                 \* watcher events not yet delivered to the callback
    now,                    \* SystemTime::now(), in seconds
    \* the tasks
    pc,                     \* where each task is
    rb,                     \* locals of files_cache_rebuild_as_needed, per caller
    ed,                     \* locals of the editor notification being handled
    ea,                     \* locals of enqueue_all_files_from_workspace_folders, per caller
    cb,                     \* locals of the watcher callback
    esd,                    \* locals of enqueue_some_docs, per caller
    ctn,                    \* the last correct_to_nearest_filename call and its result
    ops,                    \* operations started so far
    disk_ops,               \* disk changes made so far
    hist,                   \* history: counters the properties are stated with
    gft,                    \* the last get_file_text_from_memory_or_disk call and its result
    \* the AST index and its indexer thread
    ast_parsing,            \* the path the indexer thread is parsing, or << >>
    ast_index,              \* the paths the AstIndex holds symbols of
    \* the VecDb
    vs,                     \* the vecdb_search call in progress and its result
    rl,                     \* vecdb_background_reload: its locals, the caps it reads,
                            \* and what became of the instances it made
    bv,                     \* the vectorizer's status and notifier, and the caller of
                            \* memories_block_until_vectorized
    \* the patch parser
    pm,                     \* the parse_message call in progress and its result
    \* the splitter
    sp,                     \* the AstBasedFileSplitter::split call in progress and its result
    \* the vector database service, src/src/vecdb/vdb_highlev.rs
    gs,                     \* the get_status call in progress and its result
    mem_ongoing,            \* VecDb::mem_ongoing, the HashMap inside the StdMutex: goal -> OngoingWork
    ou                      \* the ongoing_update_or_create calls in progress, and the updates made

vars == << workspace_folders, workspace_files, memory_document_map, cache_dirty,
           cache_dirty_owner, cache_correction, cache_fuzzy, total_reset, total_reset_ts,
           gcx_writer, vec_db, ast_module, vec_queue, vec_removed, ast_queue, ast_removed,
           ast_resets, disk, events, now, pc, rb, ed, ea, cb, esd, ctn, ops, disk_ops, hist,
           gft, ast_parsing, ast_index, vs, rl, bv, pm, sp, gs, mem_ongoing, ou >>

\* what the callers of the registry keep
astVars == << ast_parsing, ast_index >>

vecdbVars == << vs, rl, bv >>

patchVars == << pm >>

splitVars == << sp >>

memVars == << gs, mem_ongoing, ou >>

serviceVars == << gft, astVars, vecdbVars, patchVars, splitVars, memVars >>

(***************************************************************************)
(* The tasks.                                                              *)
(***************************************************************************)
\* callers of files_cache_rebuild_as_needed
RebuildCallers == {"r1", "r2"}
\* callers of enqueue_all_files_from_workspace_folders: the workspace
\* operations (on_workspaces_init, remove_folder), _create_vecdb and
\* file_watcher_total_reset
EnqueueCallers == {"ws", "reload", "reset"}
\* "lsp" handles the editor notifications, "watcher" is the thread the
\* notify crate runs the event callback on, "reset" the task the callback
\* spawns to run file_watcher_total_reset, "reader" a caller of
\* get_file_text_from_memory_or_disk
Tasks == RebuildCallers \cup EnqueueCallers \cup {"lsp", "watcher", "reset", "reader"}
\* callers of enqueue_some_docs: on_did_change, add_folder, on_create_modify
EsdCallers == {"lsp", "ws", "watcher"}

NoCall == [name |-> <<>>, fuzzy |-> FALSE, top_n |-> 0, records |-> <<>>,
           result |-> <<>>, called |-> FALSE]

NoLocals == [x \in {} |-> <<>>]

NoRead == [path |-> <<>>, result |-> <<>>]

\* vecdb_background_reload enters its loop, vdb_highlev.rs line 194: no caps
\* loaded yet, no background task, no instance made
NoReload == [pc |-> "loop", caps |-> "nocaps", need_reload |-> FALSE, consts |-> "none",
             db_model |-> "none", tasks |-> "none", aborted |-> {}, made |-> 0,
             vec_db_error |-> ""]

\* the vectorizer service of a new VecDb, and nobody in
\* memories_block_until_vectorized
NoWaiter == [pc |-> "idle", result |-> "none", future |-> "none", permit |-> FALSE,
             awaited |-> FALSE, state |-> "starting", queue_additions |-> FALSE, worker |-> "idle"]

\* no split call yet
NoSplit == [pc |-> "idle"]

\* no get_status call yet
NoStatusCall == [pc |-> "idle"]

\* the callers of ongoing_update_or_create, the goals they name and the
\* number of calls made in a run
OngoingCallers == {"o1", "o2"}
Goals == {"g1", "g2"}
MaxOngoingCalls == 4

\* no ongoing_update_or_create call yet: started counts the calls,
\* updates is the list of the updates made, in the order of line 459
NoUpdates == [calls |-> [c \in OngoingCallers |-> [pc |-> "idle"]], started |-> 0, updates |-> << >>]

\* no parse_message call yet
NoParse == [pc |-> "idle", content |-> <<>>, files |-> <<>>, line_num |-> 1,
            edits |-> <<>>, b |-> <<>>, result |-> <<>>]

\* no vecdb_search call yet
NoSearch == [pc |-> "idle", results |-> <<>>, i |-> 0, dist0 |-> 0, filtered_results |-> <<>>]

\* the registered documents
Registry(folders, files, open, dirty) ==
    /\ workspace_folders = folders
    /\ workspace_files = files
    /\ memory_document_map = open
    /\ cache_dirty = dirty

\* DocumentsState::new, lines 266-282, in a GlobalContext that has no VecDb
\* yet: no file is registered, the caches are empty and clean
NewDocumentsState(workspace_dirs) == Registry(workspace_dirs, <<>>, EmptyMap, FALSE)

\* the rest of the state after construction: every task idle
Construction(with_ast) ==
    /\ cache_dirty_owner = "none"
    /\ cache_correction = EmptyMap
    /\ cache_fuzzy = <<>>
    /\ total_reset = FALSE
    /\ total_reset_ts = 0
    /\ gcx_writer = "none"
    /\ vec_db = "none"
    /\ ast_module = with_ast
    /\ vec_queue = {}
    /\ vec_removed = {}
    /\ ast_queue = {}
    /\ ast_removed = {}
    /\ ast_resets = 0
    /\ events = <<>>
    /\ now = 0
    /\ pc = [t \in Tasks |-> IF t = "reset" THEN "not_spawned" ELSE "idle"]
    /\ rb = [r \in RebuildCallers |-> NoLocals]
    /\ ed = NoLocals
    /\ ea = [c \in EnqueueCallers |-> NoLocals]
    /\ cb = NoLocals
    /\ esd = [t \in EsdCallers |-> NoLocals]
    /\ ctn = NoCall
    /\ ops = 0
    /\ disk_ops = 0
    /\ hist = [rebuilds |-> 0, dirtied |-> 0]
    /\ gft = NoRead
    /\ ast_parsing = << >>
    /\ ast_index = {}
    /\ vs = NoSearch
    /\ rl = NoReload
    /\ bv = NoWaiter
    /\ pm = NoParse
    /\ sp = NoSplit
    /\ gs = NoStatusCall
    /\ mem_ongoing = << >>
    /\ ou = NoUpdates

(***************************************************************************)
(* FuzzySpec: correct_to_nearest_filename called on a registry that holds  *)
(* any of the FuzzyPaths as workspace files and any of the                 *)
(* FuzzyMemoryPaths as open documents, with no other task running.         *)
(***************************************************************************)
\* lines 49-57: paths_from_anywhere; HashMap::keys yields the open documents
\* in any order, jsonl_files is empty
PathsFromAnywhere(memory_order) == memory_order \o workspace_files

\* files_cache_rebuild_as_needed followed by lines 103-132, run to the end
\* without interleaving; line 76 collects a HashSet, in any order.  One call
\* is made in a behaviour.
CorrectToNearestFilenameCall(correction_candidate, fuzzy, top_n) ==
    /\ ~ctn.called
    /\ \E memory_order \in Perms(DOMAIN memory_document_map) :
       \E fuzzy_order \in Perms(BuildCacheFuzzySet(PathsFromAnywhere(memory_order))) :
         LET new_correction == IF cache_dirty
                               THEN BuildCacheCorrection(PathsFromAnywhere(memory_order))
                               ELSE cache_correction
             new_fuzzy == IF cache_dirty THEN fuzzy_order ELSE cache_fuzzy
         IN  /\ cache_correction' = new_correction
             /\ cache_fuzzy' = new_fuzzy
             /\ cache_dirty' = FALSE
             /\ ctn' = [name |-> correction_candidate, fuzzy |-> fuzzy, top_n |-> top_n,
                        records |-> IF ExactMatch(new_correction, correction_candidate) \/ ~fuzzy
                                    THEN <<>>
                                    ELSE TopNRecords(new_fuzzy, correction_candidate, top_n),
                        result |-> CorrectToNearestFilename(new_correction, new_fuzzy,
                                                            correction_candidate, fuzzy, top_n),
                        called |-> TRUE]
    /\ UNCHANGED << workspace_folders, workspace_files, memory_document_map,
                    cache_dirty_owner, total_reset, total_reset_ts, gcx_writer, vec_db,
                    ast_module, vec_queue, vec_removed, ast_queue, ast_removed, ast_resets,
                    disk, events, now, pc, rb, ed, ea, cb, esd, ops, disk_ops, hist,
                    serviceVars >>

\* the registry after on_workspaces_init and some on_did_open calls: the
\* files are registered and the caches, never built, are marked dirty
FuzzyInit ==
    /\ Construction(TRUE)
    /\ disk = {}
    /\ \E files \in NoDupSeqs(FuzzyPaths), open \in SUBSET FuzzyMemoryPaths :
         Registry(<<>>, files, [p \in open |-> "t1"], TRUE)

FuzzyNext ==
    \E correction_candidate \in FuzzyQueries, fuzzy \in BOOLEAN, top_n \in 0..MaxTopN :
        CorrectToNearestFilenameCall(correction_candidate, fuzzy, top_n)

FuzzySpec == FuzzyInit /\ [][FuzzyNext]_vars

(***************************************************************************)
(* Properties of the filename cache, checked under FuzzySpec.              *)
(***************************************************************************)
\* the paths of both populations
Registered == Range(workspace_files) \cup DOMAIN memory_document_map

\* s is a non-empty suffix of p that starts right after a '/' or a '\'
IsTailOf(s, p) ==
    \E i \in DOMAIN p : IsSlash(p[i]) /\ i < Len(p) /\ s = SubSeq(p, i + 1, Len(p))

IsTailOrSelf(s, p) == s = p \/ IsTailOf(s, p)

\* the fuzzy branch was taken by the call
FuzzyBranchTaken ==
    ctn.called /\ ctn.fuzzy /\ ctn.name \notin DOMAIN cache_correction

Q_frog == <<"f","r","o","g">>

\* C1: a fuzzy search for a name that is no key of cache_correction returns
\* min(top_n, N) paths, N the number of distinct bare file names; with the
\* workspace {/a/b/c/frog.py, /a/b/d/toad.py}, "frog" and top_n = 2 it returns
\* both paths, frog first.
C1_FuzzyReturnsMinTopN ==
    /\ FuzzyBranchTaken => Len(ctn.result) = Min2(ctn.top_n, Len(cache_fuzzy))
    /\ ( /\ ctn.called /\ ctn.fuzzy /\ ctn.name = Q_frog /\ ctn.top_n = 2
         /\ workspace_files = <<P_frog, P_toad>>
         /\ DOMAIN memory_document_map = {} )
       => ctn.result = <<P_frog, P_toad>>

\* the position of a bare file name in cache_fuzzy: the order of the visit
VisitOrder(file_name) == CHOOSE i \in DOMAIN cache_fuzzy : cache_fuzzy[i] = file_name

\* C2: the paths a fuzzy search returns are in non-increasing order of
\* similarity to the query, whatever N and top_n are, and candidates of equal
\* similarity keep the order in which they were visited.
C2_FuzzySortedBySimilarity ==
    FuzzyBranchTaken =>
        /\ Len(ctn.result) = Len(ctn.records)
        /\ \A i, j \in DOMAIN ctn.records :
             i < j =>
               /\ ~SimGreater(ctn.records[j][2], ctn.records[i][2])
               /\ ~SimGreater(ctn.records[i][2], ctn.records[j][2])
                    => VisitOrder(ctn.records[i][1]) < VisitOrder(ctn.records[j][1])

\* C3: a name that is a key of cache_correction yields exactly
\* [cache_correction[name]], whatever fuzzy and top_n are; a name that is no
\* key yields the empty list when fuzzy is false.
C3_ExactMatchOrEmpty ==
    ctn.called =>
        /\ ctn.name \in DOMAIN cache_correction
             => ctn.result = <<cache_correction[ctn.name]>>
        /\ (ctn.name \notin DOMAIN cache_correction /\ ~ctn.fuzzy)
             => ctn.result = <<>>

\* a tail of a registered path was looked up with fuzzy = true and top_n = 0
\* and came back as the one full path
C3_Witness ==
    /\ ctn.called /\ ctn.fuzzy /\ ctn.top_n = 0
    /\ ctn.name = <<"d","/","t","o","a","d",".","p","y">>
    /\ ctn.result = <<P_toad>>

\* the strings the cache is asked about: every tail of every path, and the
\* names looked up
CacheStrings ==
    UNION { {p} \cup Range(SlashSuffixes(p)) : p \in FuzzyPaths \cup FuzzyMemoryPaths }
        \cup FuzzyQueries

\* C5, as claimed: after a rebuild cache_correction[s] = p if and only if s
\* is p or a tail of p, for every registered p, also when two paths share a
\* tail.
C5_CacheCorrectionIffTail ==
    ctn.called =>
        \A s \in CacheStrings \cup DOMAIN cache_correction, p \in Registered :
            (s \in DOMAIN cache_correction /\ cache_correction[s] = p) <=> IsTailOrSelf(s, p)

\* C5, amended: after a rebuild every key maps to a registered path of which
\* it is the whole or a tail; every registered path and each of its tails is
\* a key; and a string that is the whole or a tail of exactly one registered
\* path maps to that path.
C5_CacheCorrectionTailMap ==
    ctn.called =>
        /\ \A k \in DOMAIN cache_correction :
             /\ cache_correction[k] \in Registered
             /\ IsTailOrSelf(k, cache_correction[k])
        /\ \A p \in Registered, s \in CacheStrings :
             IsTailOrSelf(s, p) =>
               /\ s \in DOMAIN cache_correction
               /\ (\A q \in Registered : IsTailOrSelf(s, q) => q = p)
                    => cache_correction[s] = p

\* two registered paths share the tail frog.py, and the tail maps to one of them
C5_Witness ==
    /\ ctn.called
    /\ {P_frog, P_frog2, P_win} \subseteq Registered
    /\ cache_correction[<<"f","r","o","g",".","p","y">>] \in {P_frog, P_frog2}
    /\ cache_correction[<<"t","o",".","p","y">>] = P_win

(***************************************************************************)
(* The registry under concurrency.  A step that takes gcx.read() or        *)
(* gcx.write() for the length of one expression is one action guarded by   *)
(* the write guard being free; a write guard held across an await is       *)
(* recorded in gcx_writer.                                                 *)
(***************************************************************************)
registryVars == << workspace_folders, workspace_files, memory_document_map >>
cacheVars    == << cache_correction, cache_fuzzy >>
dirtyVars    == << cache_dirty, cache_dirty_owner >>
resetVars    == << total_reset, total_reset_ts >>
gcxVars      == << gcx_writer, vec_db, ast_module >>
indexVars    == << vec_queue, vec_removed, ast_queue, ast_removed, ast_resets >>
envVars      == << disk, events, now, disk_ops >>

\* gcx.read().await or gcx.write().await returns: nobody holds the write guard
GcxFree == gcx_writer = "none"

\* cache_dirty.lock().await returns without waiting for the guard
DirtyLockFreeMutantNoWait == TRUE

\* cache_dirty.lock().await returns: nobody holds the guard (lines 40, 490, 539)
DirtyLockFree == cache_dirty_owner = "none"

Goto(t, label) == pc' = [pc EXCEPT ![t] = label]

StartOp == ops < MaxOps /\ ops' = ops + 1

Dirtied == hist' = [hist EXCEPT !.dirtied = @ + 1]

(***************************************************************************)
(* The file enumerator.                                                    *)
(***************************************************************************)
\* vecdb::file_filter::BLACKLISTED_DIRS
BlacklistedDirs == { <<".","g","i","t">> }

\* vecdb::file_filter::is_this_inside_blacklisted_dir: a directory of the
\* path is blacklisted
IsInsideBlacklistedDir(path) ==
    \E i, j \in DOMAIN path :
        /\ i < j /\ path[i] = "/" /\ path[j] = "/"
        /\ SubSeq(path, i + 1, j - 1) \in BlacklistedDirs

IsUnder(path, folder) ==
    /\ Len(path) > Len(folder) + 1
    /\ SubSeq(path, 1, Len(folder)) = folder
    /\ path[Len(folder) + 1] = "/"

\* ls_files_under_version_control_recursive, lines 379-436: the files under
\* the folder that exist and are in no blacklisted directory
LsFilesRecursive(folder, files_on_disk) ==
    SelectSeq(DiskOrder, LAMBDA f : /\ f \in files_on_disk
                                    /\ IsUnder(f, folder)
                                    /\ ~IsInsideBlacklistedDir(f))

\* retrieve_files_by_proj_folders, lines 438-445
RetrieveFilesByProjFolders(proj_folders, files_on_disk) ==
    LET RECURSIVE Loop(_, _)
        Loop(all_files, i) ==
            IF i > Len(proj_folders) THEN all_files
            ELSE Loop(all_files \o LsFilesRecursive(proj_folders[i], files_on_disk), i + 1)
    IN  Loop(<<>>, 1)

(***************************************************************************)
(* files_cache_rebuild_as_needed, lines 29-91, called by r.                *)
(***************************************************************************)
RebuildBody == {"rb_memory", "rb_workspace", "rb_store", "rb_clear"}

\* lines 34-39
RebuildStart(r) ==
    /\ pc[r] = "idle"
    /\ StartOp
    /\ GcxFree
    /\ rb' = [rb EXCEPT ![r] = [cache_correction |-> cache_correction,
                                cache_fuzzy |-> cache_fuzzy]]
    /\ Goto(r, "rb_lock")
    /\ UNCHANGED << registryVars, cacheVars, dirtyVars, resetVars, gcxVars, indexVars,
                    envVars, ed, ea, cb, esd, ctn, serviceVars, hist >>

\* lines 40-41 with the flag clear: the caches read at lines 37-38 are returned
RebuildNotNeeded(r) ==
    /\ pc[r] = "rb_lock"
    /\ DirtyLockFree
    /\ ~cache_dirty
    /\ Goto(r, "idle")
    /\ UNCHANGED << registryVars, cacheVars, dirtyVars, resetVars, gcxVars, indexVars,
                    envVars, rb, ed, ea, cb, esd, ctn, serviceVars, ops, hist >>

\* lines 40-41 with the flag set: the guard is kept for the whole rebuild
RebuildLock(r) ==
    /\ pc[r] = "rb_lock"
    /\ DirtyLockFree
    /\ cache_dirty
    /\ cache_dirty_owner' = r
    /\ hist' = [hist EXCEPT !.rebuilds = @ + 1]
    /\ Goto(r, "rb_memory")
    /\ UNCHANGED << registryVars, cacheVars, cache_dirty, resetVars, gcxVars, indexVars,
                    envVars, rb, ed, ea, cb, esd, ctn, serviceVars, ops >>

\* line 49: HashMap::keys, in any order
RebuildReadMemory(r) ==
    /\ pc[r] = "rb_memory"
    /\ GcxFree
    /\ \E memory_order \in Perms(DOMAIN memory_document_map) :
         rb' = [rb EXCEPT ![r] = [paths |-> memory_order]]
    /\ Goto(r, "rb_workspace")
    /\ UNCHANGED << registryVars, cacheVars, dirtyVars, resetVars, gcxVars, indexVars,
                    envVars, ed, ea, cb, esd, ctn, serviceVars, ops, hist >>

\* lines 50-51 and 57: workspace_files, then jsonl_files, which is empty
RebuildReadWorkspace(r) ==
    /\ pc[r] = "rb_workspace"
    /\ GcxFree
    /\ rb' = [rb EXCEPT ![r] = [paths |-> rb[r].paths \o workspace_files]]
    /\ Goto(r, "rb_store")
    /\ UNCHANGED << registryVars, cacheVars, dirtyVars, resetVars, gcxVars, indexVars,
                    envVars, ed, ea, cb, esd, ctn, serviceVars, ops, hist >>

\* lines 53-87: both caches built and stored under gcx.write(); line 76
\* collects the HashSet in any order
RebuildStore(r) ==
    /\ pc[r] = "rb_store"
    /\ GcxFree
    /\ cache_correction' = BuildCacheCorrection(rb[r].paths)
    /\ \E fuzzy_order \in Perms(BuildCacheFuzzySet(rb[r].paths)) :
         cache_fuzzy' = fuzzy_order
    /\ rb' = [rb EXCEPT ![r] = NoLocals]
    /\ Goto(r, "rb_clear")
    /\ UNCHANGED << registryVars, dirtyVars, resetVars, gcxVars, indexVars,
                    envVars, ed, ea, cb, esd, ctn, serviceVars, ops, hist >>

\* lines 88-90: the flag cleared, the guard dropped, the new caches returned
RebuildClear(r) ==
    /\ pc[r] = "rb_clear"
    /\ cache_dirty' = FALSE
    /\ cache_dirty_owner' = "none"
    /\ Goto(r, "idle")
    /\ UNCHANGED << registryVars, cacheVars, resetVars, gcxVars, indexVars,
                    envVars, rb, ed, ea, cb, esd, ctn, serviceVars, ops, hist >>

(***************************************************************************)
(* enqueue_some_docs, lines 447-469, called by t with esd[t].docs.         *)
(***************************************************************************)
\* lines 459-462
EnqueueSomeDocsArcs(t) ==
    /\ pc[t] = "esd_arcs"
    /\ GcxFree
    /\ esd' = [esd EXCEPT ![t] = [docs |-> esd[t].docs, vec_db |-> vec_db,
                                  ast_module |-> ast_module]]
    /\ Goto(t, "esd_enqueue")
    /\ UNCHANGED << registryVars, cacheVars, dirtyVars, resetVars, gcxVars, indexVars,
                    envVars, rb, ed, ea, cb, ctn, serviceVars, ops, hist >>

\* lines 463-468
EnqueueSomeDocsEnqueue(t) ==
    /\ pc[t] = "esd_enqueue"
    /\ vec_queue' = IF esd[t].vec_db # "none" THEN vec_queue \cup Range(esd[t].docs)
                    ELSE vec_queue
    /\ ast_queue' = IF esd[t].ast_module THEN ast_queue \cup Range(esd[t].docs)
                    ELSE ast_queue
    /\ esd' = [esd EXCEPT ![t] = NoLocals]
    /\ Goto(t, "idle")
    /\ UNCHANGED << registryVars, cacheVars, dirtyVars, resetVars, gcxVars, vec_removed,
                    ast_removed, ast_resets, envVars, rb, ed, ea, cb, ctn, serviceVars, ops, hist >>

(***************************************************************************)
(* The editor notifications, handled by the task "lsp".                    *)
(***************************************************************************)
\* overwrite_or_create_document, lines 248-263, and then where the caller
\* goes: to mark the cache dirty when the document is new
OverwriteOrCreate(path, text, if_new, if_known) ==
    /\ GcxFree
    /\ memory_document_map' = MapInsert(memory_document_map, path, text)
    /\ Goto("lsp", IF path \in DOMAIN memory_document_map THEN if_known ELSE if_new)

\* on_did_open, lines 534-537
OnDidOpen(cpath, text) ==
    /\ pc["lsp"] = "idle"
    /\ StartOp
    /\ OverwriteOrCreate(cpath, text, "open_dirty", "idle")
    /\ UNCHANGED << workspace_folders, workspace_files, cacheVars, dirtyVars, resetVars,
                    gcxVars, indexVars, envVars, rb, ed, ea, cb, esd, ctn, serviceVars, hist >>

\* on_did_open, lines 538-540
OnDidOpenMarkDirty ==
    /\ pc["lsp"] = "open_dirty"
    /\ DirtyLockFree
    /\ cache_dirty' = TRUE
    /\ Dirtied
    /\ Goto("lsp", "idle")
    /\ UNCHANGED << registryVars, cacheVars, cache_dirty_owner, resetVars, gcxVars,
                    indexVars, envVars, rb, ed, ea, cb, esd, ctn, serviceVars, ops >>

\* on_did_change, lines 549-554
OnDidChange(path, text) ==
    /\ pc["lsp"] = "idle"
    /\ StartOp
    /\ OverwriteOrCreate(path, text, "change_dirty", "change_valid")
    /\ ed' = [path |-> path]
    /\ UNCHANGED << workspace_folders, workspace_files, cacheVars, dirtyVars, resetVars,
                    gcxVars, indexVars, envVars, rb, ea, cb, esd, ctn, serviceVars, hist >>

\* on_did_change, lines 556-558
OnDidChangeMarkDirty ==
    /\ pc["lsp"] = "change_dirty"
    /\ DirtyLockFree
    /\ cache_dirty' = TRUE
    /\ Dirtied
    /\ Goto("lsp", "change_valid")
    /\ UNCHANGED << registryVars, cacheVars, cache_dirty_owner, resetVars, gcxVars,
                    indexVars, envVars, rb, ed, ea, cb, esd, ctn, serviceVars, ops >>

\* on_did_change, lines 560-572: is_valid_file looks at the file on disk and
\* may refuse it; the document is enqueued with text: None when it does not
OnDidChangeEnqueue ==
    /\ pc["lsp"] = "change_valid"
    /\ \E go_ahead \in BOOLEAN :
         IF go_ahead
         THEN /\ esd' = [esd EXCEPT !["lsp"] = [docs |-> <<ed.path>>]]
              /\ Goto("lsp", "esd_arcs")
         ELSE /\ esd' = esd
              /\ Goto("lsp", "idle")
    /\ ed' = NoLocals
    /\ UNCHANGED << registryVars, cacheVars, dirtyVars, resetVars, gcxVars, indexVars,
                    envVars, rb, ea, cb, ctn, serviceVars, ops, hist >>

\* on_did_delete, lines 587-591
OnDidDelete(path) ==
    /\ pc["lsp"] = "idle"
    /\ StartOp
    /\ GcxFree
    /\ memory_document_map' = [q \in (DOMAIN memory_document_map) \ {path} |->
                                  memory_document_map[q]]
    /\ ed' = [path |-> path, vec_db |-> vec_db, ast_module |-> ast_module]
    /\ Goto("lsp", "delete_dirty")
    /\ UNCHANGED << workspace_folders, workspace_files, cacheVars, dirtyVars, resetVars,
                    gcxVars, indexVars, envVars, rb, ea, cb, esd, ctn, serviceVars, hist >>

\* on_did_delete, line 593
OnDidDeleteMarkDirty ==
    /\ pc["lsp"] = "delete_dirty"
    /\ DirtyLockFree
    /\ cache_dirty' = TRUE
    /\ Dirtied
    /\ Goto("lsp", "delete_indexes")
    /\ UNCHANGED << registryVars, cacheVars, cache_dirty_owner, resetVars, gcxVars,
                    indexVars, envVars, rb, ed, ea, cb, esd, ctn, serviceVars, ops >>

\* AstModule::remove_file, ast/ast_module.rs lines 55-58: the symbols of the
\* file leave the AstIndex; the indexer's queue and the file it is parsing
\* are left as they are ("will not work if the same file is in the indexer
\* queue", line 56)
AstRemoveFile(index, file_path) == index \ {file_path}

\* on_did_delete, lines 595-602
OnDidDeleteFromIndexes ==
    /\ pc["lsp"] = "delete_indexes"
    /\ vec_removed' = IF ed.vec_db # "none" THEN vec_removed \cup {ed.path} ELSE vec_removed
    /\ ast_removed' = IF ed.ast_module THEN ast_removed \cup {ed.path} ELSE ast_removed
    /\ ast_index' = IF ed.ast_module THEN AstRemoveFile(ast_index, ed.path) ELSE ast_index
    /\ ed' = NoLocals
    /\ Goto("lsp", "idle")
    /\ UNCHANGED << registryVars, cacheVars, dirtyVars, resetVars, gcxVars, vec_queue,
                    ast_queue, ast_resets, envVars, rb, ea, cb, esd, ctn, gft, ast_parsing, vecdbVars, patchVars, splitVars, memVars,
                    ops, hist >>

(***************************************************************************)
(* enqueue_all_files_from_workspace_folders, lines 471-519, called by c.   *)
(***************************************************************************)
EnqueueAllLabels == {"ea_start", "ea_enumerate", "ea_lock", "ea_replace", "ea_indexes"}

EnqueueAllActive(c) == pc[c] \in EnqueueAllLabels

\* the call is made: its locals, and the note (history) that two calls overlap
EnqueueAllCall(c, force, vecdb_only) ==
    ea' = [d \in EnqueueCallers |->
            IF d = c
            THEN [force |-> force, vecdb_only |-> vecdb_only, folders |-> <<>>,
                  paths |-> <<>>, vec_db |-> "none", ast_module |-> FALSE,
                  removed_old |-> {}, calls |-> <<>>, ret |-> -1, rebuilds |-> 0,
                  overlapped |-> \E o \in EnqueueCallers \ {c} : EnqueueAllActive(o)]
            ELSE IF EnqueueAllActive(d) THEN [ea[d] EXCEPT !.overlapped = TRUE]
            ELSE ea[d]]

\* line 476
EnqueueAllReadFolders(c) ==
    /\ pc[c] = "ea_start"
    /\ GcxFree
    /\ ea' = [ea EXCEPT ![c].folders = workspace_folders]
    /\ Goto(c, "ea_enumerate")
    /\ UNCHANGED << registryVars, cacheVars, dirtyVars, resetVars, gcxVars, indexVars,
                    envVars, rb, ed, cb, esd, ctn, serviceVars, ops, hist >>

\* lines 479-486
EnqueueAllEnumerate(c) ==
    /\ pc[c] = "ea_enumerate"
    /\ ea' = [ea EXCEPT ![c].paths = RetrieveFilesByProjFolders(ea[c].folders, disk)]
    /\ Goto(c, "ea_lock")
    /\ UNCHANGED << registryVars, cacheVars, dirtyVars, resetVars, gcxVars, indexVars,
                    envVars, rb, ed, cb, esd, ctn, serviceVars, ops, hist >>

\* line 489: the write guard, kept until line 496
EnqueueAllLockGcx(c) ==
    /\ pc[c] = "ea_lock"
    /\ GcxFree
    /\ gcx_writer' = c
    /\ Goto(c, "ea_replace")
    /\ UNCHANGED << registryVars, cacheVars, dirtyVars, resetVars, vec_db, ast_module,
                    indexVars, envVars, rb, ed, ea, cb, esd, ctn, serviceVars, ops, hist >>

\* line 490 left out: the files are replaced and the flag stays as it was
ReplaceWorkspaceFilesMutantNoDirty(c) ==
    /\ cache_dirty' = cache_dirty
    /\ hist' = hist
    /\ workspace_files' = ea[c].paths
    /\ ea' = [ea EXCEPT ![c].removed_old = { q \in Range(workspace_files) :
                                               q \notin Range(ea[c].paths) },
                        ![c].vec_db = vec_db,
                        ![c].ast_module = ast_module,
                        ![c].rebuilds = hist.rebuilds]

\* lines 490-495, under the write guard and the cache_dirty guard
ReplaceWorkspaceFiles(c) ==
    /\ cache_dirty' = TRUE
    /\ Dirtied
    /\ workspace_files' = ea[c].paths
    /\ ea' = [ea EXCEPT ![c].removed_old = { q \in Range(workspace_files) :
                                               q \notin Range(ea[c].paths) },
                        ![c].vec_db = vec_db,
                        ![c].ast_module = ast_module,
                        ![c].rebuilds = hist.rebuilds]

\* lines 490-496: cache_dirty.lock().await is awaited with the write guard held
EnqueueAllReplace(c) ==
    /\ pc[c] = "ea_replace"
    /\ DirtyLockFree
    /\ ReplaceWorkspaceFiles(c)
    /\ gcx_writer' = "none"
    /\ Goto(c, "ea_indexes")
    /\ UNCHANGED << workspace_folders, memory_document_map, cacheVars, cache_dirty_owner,
                    resetVars, vec_db, ast_module, indexVars, envVars, rb, ed, cb, esd,
                    ctn, serviceVars, ops >>

\* lines 504-518 with the reset asked for after the files are enqueued
IndexCallsMutantResetLast(c) ==
    (IF ea[c].vec_db # "none" THEN <<"vectorizer_enqueue_files">> ELSE <<>>)
    \o (IF ea[c].ast_module /\ ~ea[c].vecdb_only
        THEN <<"ast_indexer_enqueue_files">>
             \o (IF ea[c].removed_old # {} THEN <<"ast_reset_index">> ELSE <<>>)
        ELSE <<>>)

\* lines 504-518: the calls made to the two indexes, in the order they are made
IndexCalls(c) ==
    (IF ea[c].vec_db # "none" THEN <<"vectorizer_enqueue_files">> ELSE <<>>)
    \o (IF ea[c].ast_module /\ ~ea[c].vecdb_only
        THEN (IF ea[c].removed_old # {} THEN <<"ast_reset_index">> ELSE <<>>)
             \o <<"ast_indexer_enqueue_files">>
        ELSE <<>>)

\* lines 504-518
EnqueueAllIndexes(c) ==
    /\ pc[c] = "ea_indexes"
    /\ vec_queue' = IF "vectorizer_enqueue_files" \in Range(IndexCalls(c))
                    THEN vec_queue \cup Range(ea[c].paths)
                    ELSE vec_queue
    /\ ast_resets' = IF "ast_reset_index" \in Range(IndexCalls(c))
                     THEN ast_resets + 1
                     ELSE ast_resets
    /\ ast_queue' = IF "ast_indexer_enqueue_files" \in Range(IndexCalls(c))
                    THEN ast_queue \cup Range(ea[c].paths)
                    ELSE ast_queue
    /\ ea' = [ea EXCEPT ![c].ret = Len(ea[c].paths), ![c].calls = IndexCalls(c)]
    /\ Goto(c, "idle")
    /\ UNCHANGED << registryVars, cacheVars, dirtyVars, resetVars, gcxVars, vec_removed,
                    ast_removed, envVars, rb, ed, cb, esd, ctn, serviceVars, ops, hist >>

(***************************************************************************)
(* The workspace operations, handled by the task "ws", and the creation    *)
(* of the VecDb by the task "reload".                                      *)
(***************************************************************************)
\* on_workspaces_init, lines 521-526
OnWorkspacesInit ==
    /\ pc["ws"] = "idle"
    /\ StartOp
    /\ EnqueueAllCall("ws", FALSE, FALSE)
    /\ Goto("ws", "ea_start")
    /\ UNCHANGED << registryVars, cacheVars, dirtyVars, resetVars, gcxVars, indexVars,
                    envVars, rb, ed, cb, esd, ctn, serviceVars, hist >>

\* remove_folder, lines 619-624
RemoveFolder(path) ==
    /\ pc["ws"] = "idle"
    /\ StartOp
    /\ GcxFree
    /\ workspace_folders' = SelectSeq(workspace_folders, LAMBDA q : q # path)
    /\ EnqueueAllCall("ws", FALSE, FALSE)
    /\ Goto("ws", "ea_start")
    /\ UNCHANGED << workspace_files, memory_document_map, cacheVars, dirtyVars, resetVars,
                    gcxVars, indexVars, envVars, rb, ed, cb, esd, ctn, serviceVars, hist >>

\* add_folder, lines 607-611
AddFolder(path) ==
    /\ pc["ws"] = "idle"
    /\ StartOp
    /\ GcxFree
    /\ workspace_folders' = Append(workspace_folders, path)
    /\ esd' = [esd EXCEPT !["ws"] = [folder |-> path]]
    /\ Goto("ws", "add_enumerate")
    /\ UNCHANGED << workspace_files, memory_document_map, cacheVars, dirtyVars, resetVars,
                    gcxVars, indexVars, envVars, rb, ed, ea, cb, ctn, serviceVars, hist >>

\* add_folder, lines 612-614
AddFolderEnumerate ==
    /\ pc["ws"] = "add_enumerate"
    /\ esd' = [esd EXCEPT !["ws"] = [docs |-> LsFilesRecursive(esd["ws"].folder, disk)]]
    /\ Goto("ws", "esd_arcs")
    /\ UNCHANGED << registryVars, cacheVars, dirtyVars, resetVars, gcxVars, indexVars,
                    envVars, rb, ed, ea, cb, ctn, serviceVars, ops, hist >>

\* _create_vecdb, src/src/vecdb/vdb_highlev.rs lines 99-104: the VecDb is
\* installed, then every workspace file is enqueued with force and vecdb_only
CreateVecdb ==
    /\ pc["reload"] = "idle"
    /\ StartOp
    /\ vec_db = "none"
    /\ GcxFree
    /\ vec_db' = "db1"
    /\ EnqueueAllCall("reload", TRUE, TRUE)
    /\ Goto("reload", "ea_start")
    /\ UNCHANGED << registryVars, cacheVars, dirtyVars, resetVars, gcx_writer, ast_module,
                    indexVars, envVars, rb, ed, cb, esd, ctn, serviceVars, hist >>

(***************************************************************************)
(* The files on disk and the events the watcher reports for them.          *)
(***************************************************************************)
\* the watcher watches the workspace folders recursively (lines 311-313,
\* 610, 622)
Watched(f) == \E i \in DOMAIN workspace_folders : IsUnder(f, workspace_folders[i])

\* the path of f as reported when the folder /a is watched as /a/.
WithDot(f) == SubSeq(f, 1, 2) \o <<"/", ".">> \o SubSeq(f, 3, Len(f))

\* the event is queued for the callback if it is about a watched file
Notify(kind, files, dotted) ==
    /\ disk_ops < MaxDiskOps
    /\ disk_ops' = disk_ops + 1
    /\ events' = IF \E i \in DOMAIN files : Watched(files[i])
                 THEN Append(events, [kind |-> kind,
                                      paths |-> [i \in DOMAIN files |->
                                                   IF dotted THEN WithDot(files[i])
                                                   ELSE files[i]]])
                 ELSE events
    /\ UNCHANGED << registryVars, cacheVars, dirtyVars, resetVars, gcxVars, indexVars,
                    now, pc, rb, ed, ea, cb, esd, ctn, serviceVars, ops, hist >>

DiskCreate(f, dotted) ==
    /\ f \notin disk
    /\ disk' = disk \cup {f}
    /\ Notify("create", <<f>>, dotted)

DiskModify(f, dotted) ==
    /\ f \in disk
    /\ disk' = disk
    /\ Notify("modify", <<f>>, dotted)

DiskAccess(f) ==
    /\ f \in disk
    /\ disk' = disk
    /\ Notify("access", <<f>>, FALSE)

\* one Remove event may list several paths
DiskRemove(files, dotted) ==
    /\ files # <<>>
    /\ Len(files) <= MaxEventPaths
    /\ Range(files) \subseteq disk
    /\ disk' = disk \ Range(files)
    /\ Notify("remove", files, dotted)

(***************************************************************************)
(* canonical_path, lines 155-182: the path is absolute already; "."        *)
(* components and empty components are dropped and the rest is joined.     *)
(***************************************************************************)
PathComponents(path) ==
    LET RECURSIVE Loop(_, _, _)
        Loop(i, done, cur) ==
            IF i > Len(path) THEN Append(done, cur)
            ELSE IF path[i] = "/" THEN Loop(i + 1, Append(done, cur), <<>>)
            ELSE Loop(i + 1, done, Append(cur, path[i]))
    IN  Loop(1, <<>>, <<>>)

CanonicalPath(path) ==
    LET normal == SelectSeq(PathComponents(path), LAMBDA c : c # <<>> /\ c # <<".">>)
        RECURSIVE Join(_, _)
        Join(i, res) == IF i > Len(normal) THEN res
                        ELSE Join(i + 1, res \o <<"/">> \o normal[i])
    IN  Join(1, <<>>)

(***************************************************************************)
(* file_watcher_event, lines 627-692.                                      *)
(***************************************************************************)
\* on_create_modify, lines 630-637: the documents to enqueue
OnCreateModifyDocs(event) ==
    LET accepted == SelectSeq(event.paths, LAMBDA q : ~IsInsideBlacklistedDir(q))
    IN  [i \in DOMAIN accepted |-> CanonicalPath(accepted[i])]

\* on_remove, lines 648-651
NeverMind(event) == \A i \in DOMAIN event.paths : IsInsideBlacklistedDir(event.paths[i])

\* on_remove without the look into workspace_files: any Remove of a file
\* outside the blacklisted directories counts
OnRemoveMutantAnyFile(event, wf) == ~NeverMind(event)

\* on_remove, lines 648-680: the first path that is outside the blacklisted
\* directories and known in workspace_files makes it return true
OnRemove(event, wf) ==
    /\ ~NeverMind(event)
    /\ \E i \in DOMAIN event.paths :
         /\ ~IsInsideBlacklistedDir(event.paths[i])
         /\ CanonicalPath(event.paths[i]) \in Range(wf)

(***************************************************************************)
(* The event callback of init_watcher, lines 285-309, run by the watcher   *)
(* thread, one event at a time.                                            *)
(***************************************************************************)
\* lines 288-291: the event is taken and total_reset is read
CallbackBegin ==
    /\ pc["watcher"] = "idle"
    /\ events # <<>>
    /\ GcxFree
    /\ cb' = [event |-> Head(events), have_already_total_reset |-> total_reset]
    /\ events' = Tail(events)
    /\ Goto("watcher", IF total_reset THEN "cb_ignored" ELSE "cb_event")
    /\ UNCHANGED << registryVars, cacheVars, dirtyVars, resetVars, gcxVars, indexVars,
                    disk, now, disk_ops, rb, ed, ea, esd, ctn, serviceVars, ops, hist >>

\* line 687 and on_create_modify, lines 629-645
FileWatcherCreateModify ==
    /\ pc["watcher"] = "cb_event"
    /\ cb.event.kind \in {"create", "modify"}
    /\ IF OnCreateModifyDocs(cb.event) = <<>>
       THEN /\ esd' = esd
            /\ Goto("watcher", "idle")
       ELSE /\ esd' = [esd EXCEPT !["watcher"] = [docs |-> OnCreateModifyDocs(cb.event)]]
            /\ Goto("watcher", "esd_arcs")
    /\ UNCHANGED << registryVars, cacheVars, dirtyVars, resetVars, gcxVars, indexVars,
                    envVars, rb, ed, ea, cb, ctn, serviceVars, ops, hist >>

\* line 688 and on_remove: new_total_reset is its result (lines 292, 298)
FileWatcherRemove ==
    /\ pc["watcher"] = "cb_event"
    /\ cb.event.kind = "remove"
    /\ NeverMind(cb.event) \/ GcxFree
    /\ Goto("watcher", IF OnRemove(cb.event, workspace_files) THEN "cb_set_reset" ELSE "idle")
    /\ UNCHANGED << registryVars, cacheVars, dirtyVars, resetVars, gcxVars, indexVars,
                    envVars, rb, ed, ea, cb, esd, ctn, serviceVars, ops, hist >>

\* lines 684-685, 689-690: every other kind of event
FileWatcherOther ==
    /\ pc["watcher"] = "cb_event"
    /\ cb.event.kind \notin {"create", "modify", "remove"}
    /\ Goto("watcher", "idle")
    /\ UNCHANGED << registryVars, cacheVars, dirtyVars, resetVars, gcxVars, indexVars,
                    envVars, rb, ed, ea, cb, esd, ctn, serviceVars, ops, hist >>

\* lines 302-303: the write guard is bound to gcx_locked, which lives to the
\* end of the block at line 305
CallbackSetReset ==
    /\ pc["watcher"] = "cb_set_reset"
    /\ GcxFree
    /\ gcx_writer' = "watcher"
    /\ total_reset' = TRUE
    /\ Goto("watcher", "cb_set_deadline")
    /\ UNCHANGED << registryVars, cacheVars, dirtyVars, total_reset_ts, vec_db, ast_module,
                    indexVars, envVars, rb, ed, ea, cb, esd, ctn, serviceVars, ops, hist >>

(***************************************************************************)
(* Spec: the editor notifications, the workspace operations, the creation  *)
(* of the VecDb and two callers of files_cache_rebuild_as_needed, in any   *)
(* interleaving, on a disk that does not change.                           *)
(***************************************************************************)
Init ==
    /\ NewDocumentsState(<<D_a>>)
    /\ \E with_ast \in BOOLEAN : Construction(with_ast)
    /\ disk = DiskFiles

Rebuild(r) ==
    \/ RebuildStart(r)
    \/ RebuildNotNeeded(r)
    \/ RebuildLock(r)
    \/ RebuildReadMemory(r)
    \/ RebuildReadWorkspace(r)
    \/ RebuildStore(r)
    \/ RebuildClear(r)

EnqueueSomeDocs(t) ==
    \/ EnqueueSomeDocsArcs(t)
    \/ EnqueueSomeDocsEnqueue(t)

EnqueueAll(c) ==
    \/ EnqueueAllReadFolders(c)
    \/ EnqueueAllEnumerate(c)
    \/ EnqueueAllLockGcx(c)
    \/ EnqueueAllReplace(c)
    \/ EnqueueAllIndexes(c)

Editor ==
    \/ \E path \in EditorPaths, text \in Texts : OnDidOpen(path, text)
    \/ OnDidOpenMarkDirty
    \/ \E path \in EditorPaths, text \in Texts : OnDidChange(path, text)
    \/ OnDidChangeMarkDirty
    \/ OnDidChangeEnqueue
    \/ \E path \in EditorPaths : OnDidDelete(path)
    \/ OnDidDeleteMarkDirty
    \/ OnDidDeleteFromIndexes

Workspace ==
    \/ OnWorkspacesInit
    \/ \E path \in Folders : RemoveFolder(path)
    \/ \E path \in Folders : AddFolder(path)
    \/ AddFolderEnumerate
    \/ CreateVecdb

Next ==
    \/ \E r \in RebuildCallers : Rebuild(r)
    \/ \E t \in {"lsp", "ws"} : EnqueueSomeDocs(t)
    \/ \E c \in EnqueueCallers : EnqueueAll(c)
    \/ Editor
    \/ Workspace

Spec == Init /\ [][Next]_vars

(***************************************************************************)
(* The rest of the callback and file_watcher_total_reset.  The callback    *)
(* asks for gcx.write() at line 304 while it holds the write guard of line *)
(* 302; the ARwLock is not reentrant, so the request is granted only when  *)
(* nobody, the callback included, holds the guard.  Time is in seconds.    *)
(***************************************************************************)
\* Duration::from_secs(10), lines 295 and 304
DebounceSecs == 10

\* lines 293-295: events that arrive while a total reset is planned
CallbackIgnored ==
    /\ pc["watcher"] = "cb_ignored"
    /\ GcxFree
    /\ total_reset_ts' = now + DebounceSecs
    /\ Goto("watcher", "idle")
    /\ UNCHANGED << registryVars, cacheVars, dirtyVars, total_reset, gcxVars, indexVars,
                    envVars, rb, ed, ea, cb, esd, ctn, serviceVars, ops, hist >>

\* lines 304-305: the second gcx.write(), then both guards are dropped
CallbackSetDeadline ==
    /\ pc["watcher"] = "cb_set_deadline"
    /\ GcxFree
    /\ total_reset_ts' = now + DebounceSecs
    /\ gcx_writer' = "none"
    /\ Goto("watcher", "cb_spawn")
    /\ UNCHANGED << registryVars, cacheVars, dirtyVars, total_reset, vec_db, ast_module,
                    indexVars, envVars, rb, ed, ea, cb, esd, ctn, serviceVars, ops, hist >>

\* line 306
CallbackSpawnReset ==
    /\ pc["watcher"] = "cb_spawn"
    /\ pc' = [pc EXCEPT !["watcher"] = "idle", !["reset"] = "tr_sleep"]
    /\ UNCHANGED << registryVars, cacheVars, dirtyVars, resetVars, gcxVars, indexVars,
                    envVars, rb, ed, ea, cb, esd, ctn, serviceVars, ops, hist >>

\* lines 319-332: one turn of the loop, a second later
TotalResetCheck ==
    /\ pc["reset"] = "tr_sleep"
    /\ GcxFree
    /\ now' = now + 1
    /\ IF total_reset_ts < now'
       THEN /\ total_reset' = FALSE
            /\ Goto("reset", "tr_enqueue")
       ELSE /\ total_reset' = total_reset
            /\ pc' = pc
    /\ UNCHANGED << registryVars, cacheVars, dirtyVars, total_reset_ts, gcxVars, indexVars,
                    disk, events, disk_ops, rb, ed, ea, cb, esd, ctn, serviceVars, ops, hist >>

\* lines 334-336
TotalResetEnqueue ==
    /\ pc["reset"] = "tr_enqueue"
    /\ EnqueueAllCall("reset", FALSE, FALSE)
    /\ Goto("reset", "ea_start")
    /\ UNCHANGED << registryVars, cacheVars, dirtyVars, resetVars, gcxVars, indexVars,
                    envVars, rb, ed, cb, esd, ctn, serviceVars, ops, hist >>

(***************************************************************************)
(* WatcherSpec: the files on disk change, the watcher thread runs the      *)
(* callback on each event, and the editor sends on_workspaces_init.  The   *)
(* watcher thread and the task of on_workspaces_init are scheduled fairly. *)
(* Of the steps above only those that can happen are steps of WatcherNext: *)
(* CallbackSetDeadline waits for a guard its own thread holds, and the     *)
(* steps after it, and CallbackIgnored, which needs total_reset to be      *)
(* true when the thread takes the next event, wait for it.                 *)
(***************************************************************************)
Disk ==
    \/ \E f \in ChangingFiles, dotted \in BOOLEAN : DiskCreate(f, dotted)
    \/ \E f \in ChangingFiles, dotted \in BOOLEAN : DiskModify(f, dotted)
    \/ \E f \in ChangingFiles : DiskAccess(f)
    \/ \E files \in NoDupSeqs(ChangingFiles), dotted \in BOOLEAN : DiskRemove(files, dotted)

Callback ==
    \/ CallbackBegin
    \/ FileWatcherCreateModify
    \/ FileWatcherRemove
    \/ FileWatcherOther
    \/ EnqueueSomeDocs("watcher")
    \/ CallbackSetReset

WatcherNext ==
    \/ OnWorkspacesInit
    \/ EnqueueAll("ws")
    \/ Disk
    \/ Callback

WatcherSpec ==
    /\ Init
    /\ [][WatcherNext]_vars
    /\ WF_vars(Callback)
    /\ WF_vars(EnqueueAll("ws"))

(***************************************************************************)
(* Properties of the registry under Spec.                                  *)
(***************************************************************************)
\* C4: whenever cache_dirty is false, every path in memory_document_map or
\* workspace_files is a key of cache_correction and maps to itself.
C4_CleanCacheHoldsRegistered ==
    ~cache_dirty =>
        \A p \in Registered : p \in DOMAIN cache_correction /\ cache_correction[p] = p

\* C6: at most one caller of files_cache_rebuild_as_needed is in the rebuild
\* body, and every rebuild answers a setting of cache_dirty of its own: the
\* rebuilds started never outnumber the times cache_dirty was set, so a
\* caller that waited for another caller's rebuild does not rebuild again.
C6_OneRebuildPerDirtying ==
    /\ Cardinality({ r \in RebuildCallers : pc[r] \in RebuildBody }) <= 1
    /\ hist.rebuilds <= hist.dirtied

\* one caller is in the rebuild body while the other waits for the guard
C6_Witness ==
    /\ pc["r1"] \in RebuildBody
    /\ pc["r2"] = "rb_lock"
    /\ hist.rebuilds = 1

EnqueueAllReturns(c) == pc[c] = "ea_indexes" /\ pc'[c] = "idle"

\* C10 as stated: when a call of enqueue_all_files_from_workspace_folders
\* that no other call overlapped returns, workspace_files is the enumeration
\* of the current workspace_folders, cache_dirty is true, every enumerated
\* path is in the vector index's queue and the count of paths is returned.
C10_ReturnAsStated ==
    [][\A c \in EnqueueCallers :
         (EnqueueAllReturns(c) /\ ~ea[c].overlapped) =>
            /\ workspace_files' = RetrieveFilesByProjFolders(workspace_folders', disk')
            /\ cache_dirty'
            /\ Range(workspace_files') \subseteq vec_queue'
            /\ ea'[c].ret = Len(workspace_files')]_vars

\* C10: when a call that no other call overlapped returns, workspace_files
\* is what the call enumerated from the folders it read on entry, cache_dirty
\* is true unless a rebuild that took the guard after the replacement
\* cleared it, the enumerated paths are in the vector index's queue if a
\* VecDb was installed when the call replaced the files, and the count of
\* enumerated paths is returned.
C10_ReturnOfUnoverlappedCall ==
    [][\A c \in EnqueueCallers :
         (EnqueueAllReturns(c) /\ ~ea[c].overlapped) =>
            /\ workspace_files' = ea[c].paths
            /\ ea[c].paths = RetrieveFilesByProjFolders(ea[c].folders, disk)
            /\ cache_dirty' \/ hist'.rebuilds > ea[c].rebuilds
            /\ ea[c].vec_db # "none" => Range(ea[c].paths) \subseteq vec_queue'
            /\ ea'[c].ret = Len(ea[c].paths)]_vars

\* the call made by _create_vecdb has returned, alone, with both files
C10_Witness ==
    /\ pc["reload"] = "idle"
    /\ DOMAIN ea["reload"] # {}
    /\ ea["reload"].ret = 2
    /\ ~ea["reload"].overlapped
    /\ workspace_files = <<F_abx, F_ax>>
    /\ vec_queue = {F_abx, F_ax}

(***************************************************************************)
(* Properties of the watcher under WatcherSpec.                            *)
(***************************************************************************)
\* C7: once file_watcher_event has answered a Remove of a known file with
\* true, the callback returns, the reset task is spawned and total_reset is
\* cleared again.
C7_ResetScheduledLeadsToReset ==
    (pc["watcher"] = "cb_set_reset")
        ~> (pc["watcher"] = "idle" /\ pc["reset"] # "not_spawned" /\ ~total_reset)

\* C8: file_watcher_event returns true only for a Remove event that lists a
\* path outside the blacklisted directories whose canonical path is in
\* workspace_files; no other event schedules a total reset.
C8_OnlyKnownRemoveSchedulesReset ==
    [][(pc["watcher"] # "cb_set_reset" /\ pc'["watcher"] = "cb_set_reset") =>
          /\ cb.event.kind = "remove"
          /\ \E i \in DOMAIN cb.event.paths :
               /\ ~IsInsideBlacklistedDir(cb.event.paths[i])
               /\ CanonicalPath(cb.event.paths[i]) \in Range(workspace_files)]_vars

\* a Remove event that lists a blacklisted path and then a known file,
\* reported through /a/., schedules the reset
C8_Witness ==
    /\ pc["watcher"] = "cb_set_reset"
    /\ cb.event.paths = <<WithDot(F_git), WithDot(F_ax)>>

\* C9: an event that arrives while total_reset is true is taken by the
\* callback and moves total_reset_ts to DebounceSecs after it.
C9_EventDuringResetMovesDeadline ==
    (total_reset /\ events # <<>>)
        ~> (events = <<>> /\ total_reset_ts >= DebounceSecs)

(***************************************************************************)
(* Properties of the re-enumeration under Spec.                            *)
(***************************************************************************)
\* the first place of call in the sequence, 0 if it is not made
PlaceOf(calls, call) ==
    IF call \in Range(calls)
    THEN CHOOSE i \in DOMAIN calls : calls[i] = call /\ \A j \in 1..(i - 1) : calls[j] # call
    ELSE 0

EnqueueAllReplaces(c) == pc[c] = "ea_replace" /\ pc'[c] = "ea_indexes"

\* C11 as stated: a call with vecdb_only=false asks for ast_reset_index iff
\* a previously known workspace file is absent from the new enumeration, and
\* asks before ast_indexer_enqueue_files; a call with vecdb_only=true makes
\* neither AST call; every call makes the vector-index enqueue.
C11_IndexCallsAsStated ==
    [][\A c \in EnqueueCallers :
         EnqueueAllReturns(c) =>
            /\ "vectorizer_enqueue_files" \in Range(ea'[c].calls)
            /\ ~ea[c].vecdb_only =>
                 /\ "ast_indexer_enqueue_files" \in Range(ea'[c].calls)
                 /\ "ast_reset_index" \in Range(ea'[c].calls) <=> ea[c].removed_old # {}
            /\ ea[c].vecdb_only =>
                 Range(ea'[c].calls) \cap {"ast_reset_index", "ast_indexer_enqueue_files"} = {}]_vars

\* C11: removed_old is the set of previously known workspace files absent
\* from the new enumeration.  When the call found an AST module and has
\* vecdb_only=false, it asks for ast_reset_index iff removed_old is not
\* empty, and asks before its ast_indexer_enqueue_files; with vecdb_only=true
\* or without an AST module it makes neither AST call; it makes the
\* vector-index enqueue iff it found a VecDb installed.
C11_IndexCalls ==
    [][\A c \in EnqueueCallers :
         /\ EnqueueAllReplaces(c) =>
              ea'[c].removed_old = Range(workspace_files) \ Range(workspace_files')
         /\ EnqueueAllReturns(c) =>
              LET calls == ea'[c].calls
              IN  /\ "vectorizer_enqueue_files" \in Range(calls) <=> ea[c].vec_db # "none"
                  /\ (ea[c].ast_module /\ ~ea[c].vecdb_only) =>
                       /\ "ast_indexer_enqueue_files" \in Range(calls)
                       /\ "ast_reset_index" \in Range(calls) <=> ea[c].removed_old # {}
                       /\ "ast_reset_index" \in Range(calls) =>
                            PlaceOf(calls, "ast_reset_index")
                                < PlaceOf(calls, "ast_indexer_enqueue_files")
                  /\ (ea[c].vecdb_only \/ ~ea[c].ast_module) =>
                       Range(calls) \cap {"ast_reset_index", "ast_indexer_enqueue_files"} = {}
                  /\ ast_resets' = ast_resets + (IF "ast_reset_index" \in Range(calls) THEN 1 ELSE 0)
       ]_vars

\* a call that found known files gone has asked for the reset and then
\* enqueued
C11_Witness ==
    /\ pc["ws"] = "idle"
    /\ DOMAIN ea["ws"] # {}
    /\ ea["ws"].removed_old # {}
    /\ ea["ws"].calls = <<"ast_reset_index", "ast_indexer_enqueue_files">>
    /\ ast_resets = 1

(***************************************************************************)
(* ReindexSpec: files disappear from disk while a VecDb is installed, and  *)
(* the workspace is enumerated again by on_workspaces_init, remove_folder  *)
(* or _create_vecdb.  The watcher thread does not run.                     *)
(***************************************************************************)
ReindexNext ==
    \/ CreateVecdb
    \/ OnWorkspacesInit
    \/ \E path \in Folders : RemoveFolder(path)
    \/ \E c \in EnqueueCallers : EnqueueAll(c)
    \/ \E files \in NoDupSeqs(ChangingFiles) : DiskRemove(files, FALSE)

ReindexSpec == Init /\ [][ReindexNext]_vars

\* C12: when a re-enumeration that found a VecDb returns, the vector index
\* has been told to drop every formerly known workspace file that was
\* handed to the vectorizer and that the enumeration no longer lists because
\* it is gone from disk.
C12_VectorIndexToldToDrop ==
    [][\A c \in EnqueueCallers :
         (EnqueueAllReturns(c) /\ ea[c].vec_db # "none") =>
            \A q \in ea[c].removed_old :
                (q \notin disk /\ q \in vec_queue) => q \in vec_removed']_vars

(***************************************************************************)
(* get_file_text_from_memory_or_disk, lines 186-195, called by the task    *)
(* "reader".  A result is <<"Ok", text>> or <<"Err", message>>.            *)
(***************************************************************************)
registryTaskVars == << rb, ed, ea, cb, esd, ctn, hist >>

\* the memory document is not looked at
MemoryTextMutantNotLookedAt(path) == <<>>

\* lines 188-192: the text of the memory document, <<>> if there is none
MemoryText(path) ==
    IF path \in DOMAIN memory_document_map
    THEN <<"Ok", memory_document_map[path]>>
    ELSE <<>>

\* read_file_from_disk, lines 340-344
ReadFileFromDisk(path, files_on_disk) ==
    IF path \in files_on_disk
    THEN <<"Ok", "text on disk">>
    ELSE <<"Err", "failed to read file">>

GetFileTextCall(file_path) ==
    /\ pc["reader"] = "idle"
    /\ StartOp
    /\ gft' = [path |-> file_path, result |-> <<>>]
    /\ Goto("reader", "gft_memory")
    /\ UNCHANGED << registryVars, cacheVars, dirtyVars, resetVars, gcxVars, indexVars,
                    envVars, registryTaskVars, astVars, vecdbVars, patchVars, splitVars, memVars >>

\* lines 188-193, under gcx.read()
GetFileTextMemory ==
    /\ pc["reader"] = "gft_memory"
    /\ GcxFree
    /\ IF MemoryText(gft.path) # <<>>
       THEN /\ gft' = [gft EXCEPT !.result = MemoryText(gft.path)]
            /\ Goto("reader", "idle")
       ELSE /\ gft' = gft
            /\ Goto("reader", "gft_disk")
    /\ UNCHANGED << registryVars, cacheVars, dirtyVars, resetVars, gcxVars, indexVars,
                    envVars, registryTaskVars, astVars, vecdbVars, patchVars, splitVars, memVars, ops >>

\* line 194
GetFileTextDisk ==
    /\ pc["reader"] = "gft_disk"
    /\ gft' = [gft EXCEPT !.result = ReadFileFromDisk(gft.path, disk)]
    /\ Goto("reader", "idle")
    /\ UNCHANGED << registryVars, cacheVars, dirtyVars, resetVars, gcxVars, indexVars,
                    envVars, registryTaskVars, astVars, vecdbVars, patchVars, splitVars, memVars, ops >>

GetFileText ==
    \/ \E file_path \in EditorPaths : GetFileTextCall(file_path)
    \/ GetFileTextMemory
    \/ GetFileTextDisk

(***************************************************************************)
(* TextSpec: the editor opens, changes and deletes documents, the file    *)
(* /a/x on disk is created, changed and removed and the watcher thread     *)
(* takes the events, while a reader asks for file texts.  No workspace     *)
(* file is registered.                                                     *)
(***************************************************************************)
TextNext ==
    \/ Editor
    \/ GetFileText
    \/ DiskCreate(F_ax, FALSE)
    \/ DiskModify(F_ax, FALSE)
    \/ DiskRemove(<<F_ax>>, FALSE)
    \/ CallbackBegin
    \/ FileWatcherCreateModify
    \/ FileWatcherRemove
    \/ \E t \in {"lsp", "watcher"} : EnqueueSomeDocs(t)

TextSpec == Init /\ [][TextNext]_vars

\* the text the editor gave for the document, "" if the document is not open
DocText(map, path) == IF path \in DOMAIN map THEN map[path] ELSE ""

GetTextOrReadFromDisk(path) ==
    IF MemoryText(path) # <<>> THEN MemoryText(path) ELSE ReadFileFromDisk(path, disk)

\* the thread pops a path and fetches its text; a file without text is skipped
AstIndexerPop ==
    /\ ast_module
    /\ ast_parsing = << >>
    /\ \E path \in ast_queue :
         /\ ast_queue' = ast_queue \ {path}
         /\ ast_parsing' = IF GetTextOrReadFromDisk(path)[1] = "Ok" THEN path ELSE << >>
    /\ UNCHANGED << registryVars, cacheVars, dirtyVars, resetVars, gcxVars, vec_queue,
                    vec_removed, ast_removed, ast_resets, envVars, pc, registryTaskVars,
                    gft, ast_index, vecdbVars, patchVars, splitVars, memVars, ops >>

\* the thread stores the symbols of the file it parsed
AstIndexerStore ==
    /\ ast_parsing # << >>
    /\ ast_index' = ast_index \cup {ast_parsing}
    /\ ast_parsing' = << >>
    /\ UNCHANGED << registryVars, cacheVars, dirtyVars, resetVars, gcxVars, indexVars,
                    envVars, pc, registryTaskVars, gft, vecdbVars, patchVars, splitVars, memVars, ops >>

AstIndexer ==
    \/ AstIndexerPop
    \/ AstIndexerStore

AstNext ==
    \/ Editor
    \/ EnqueueSomeDocs("lsp")
    \/ AstIndexer

AstSpec == Init /\ [][AstNext]_vars

\* the indexer has nothing left to do
AstQueueDrained == ast_queue = {} /\ ast_parsing = << >>

\* the last notification about path was an on_did_delete, and it has returned:
\* remove_file(path) was called and path was not enqueued since (on_did_change
\* puts path in memory_document_map before it enqueues it)
DeletedLast(path) ==
    /\ pc["lsp"] = "idle"
    /\ path \in ast_removed
    /\ path \notin DOMAIN memory_document_map

\* C14: once on_did_delete(p) has called remove_file(p) and the indexer's
\* queue has drained, the AST index holds no symbol of p, also when p was
\* in the queue or being parsed when remove_file ran (p is in the index
\* after remove_file only if the indexer stored it later, and nothing
\* enqueued p in between).
C14_RemovedFileLeavesNoSymbols ==
    \A path \in EditorPaths :
        (DeletedLast(path) /\ AstQueueDrained) => path \notin ast_index

\* add_folder returns: its enqueue_some_docs call, line 614, has finished
AddFolderReturns == pc["ws"] = "esd_enqueue" /\ pc'["ws"] = "idle"

\* C15: when add_folder(path) returns, every accepted file it enumerated
\* under path is registered: it is in workspace_files, and cache_dirty is
\* true so that the next lookup rebuilds the caches with it.
C15_AddedFolderFilesRegistered ==
    [][AddFolderReturns =>
          \A p \in Range(esd["ws"].docs) :
              p \in Range(workspace_files') /\ cache_dirty']_vars

(***************************************************************************)
(* VecDb::vecdb_search, src/src/vecdb/vdb_highlev.rs lines 539-591.        *)
(* Distances are in hundredths: 0.25 is 25 and the 0.01 of line 576 is 1.  *)
(* A usefulness is the exact fraction <<numerator, denominator>>.          *)
(***************************************************************************)
\* the longest handler result drawn, besides ExampleDistances
MaxBatch == 3

\* line 22
VECDB_DISTANCE_REJECT_COMPLETELY == 25

\* the distances the handler reports
Distances == {-10, 0, 10, 18, 25, 30, 40}

ExampleDistances == <<10, 18, 25, 30, 40>>

\* f32::abs
Abs(d) == IF d < 0 THEN -d ELSE d

\* the handler returns the nearest record first
NearestFirst(ds) == \A i \in 1..(Len(ds) - 1) : Abs(ds[i]) <= Abs(ds[i + 1])

\* what handler_locked.search, line 564, may return
HandlerResults ==
    { ds \in UNION { [1..n -> Distances] : n \in 0..MaxBatch } : NearestFirst(ds) }
        \cup {ExampleDistances}

\* line 576: 100.0 - 75.0 * ((|d| - dist0) / (dist0 + 0.01)).max(0.0).min(1.0)
Usefulness(distance, dist0) ==
    LET den == dist0 + 1
        num == Abs(distance) - dist0
        clamped == Min2(IF num < 0 THEN 0 ELSE num, den)
    IN  << 100 * den - 75 * clamped, den >>

\* equal fractions
SameFraction(a, b) == a[1] * b[2] = b[1] * a[2]

\* a fraction within lo..hi
FractionWithin(a, lo, hi) == lo * a[2] <= a[1] /\ a[1] <= hi * a[2]

\* a record with distance 0.25 is kept
RejectCompletelyMutantStrictlyAbove(distance) == Abs(distance) > VECDB_DISTANCE_REJECT_COMPLETELY

\* line 577
RejectCompletely(distance) == Abs(distance) >= VECDB_DISTANCE_REJECT_COMPLETELY

\* lines 564-570: the handler has answered
VecdbSearchCall(results) ==
    /\ vs.pc = "idle"
    /\ vs' = [pc |-> "loop", results |-> results, i |-> 1, dist0 |-> 0,
              filtered_results |-> <<>>]
    /\ UNCHANGED << registryVars, cacheVars, dirtyVars, resetVars, gcxVars, indexVars,
                    envVars, pc, registryTaskVars, gft, astVars, rl, bv, patchVars, splitVars, memVars, ops >>

\* lines 571-583: one iteration of the loop over the records
VecdbSearchRecord ==
    /\ vs.pc = "loop"
    /\ vs.i <= Len(vs.results)
    /\ LET distance == vs.results[vs.i]
           dist0 == IF vs.dist0 = 0 THEN Abs(distance) ELSE vs.dist0
           rec == [distance |-> distance, usefulness |-> Usefulness(distance, dist0)]
       IN  vs' = [vs EXCEPT !.dist0 = dist0,
                            !.i = vs.i + 1,
                            !.filtered_results =
                                IF RejectCompletely(distance) THEN vs.filtered_results
                                ELSE Append(vs.filtered_results, rec)]
    /\ UNCHANGED << registryVars, cacheVars, dirtyVars, resetVars, gcxVars, indexVars,
                    envVars, pc, registryTaskVars, gft, astVars, rl, bv, patchVars, splitVars, memVars, ops >>

\* lines 584-590
VecdbSearchReturn ==
    /\ vs.pc = "loop"
    /\ vs.i > Len(vs.results)
    /\ vs' = [vs EXCEPT !.pc = "done"]
    /\ UNCHANGED << registryVars, cacheVars, dirtyVars, resetVars, gcxVars, indexVars,
                    envVars, pc, registryTaskVars, gft, astVars, rl, bv, patchVars, splitVars, memVars, ops >>

SearchNext ==
    \/ \E results \in HandlerResults : VecdbSearchCall(results)
    \/ VecdbSearchRecord
    \/ VecdbSearchReturn

SearchSpec == Init /\ [][SearchNext]_vars

\* the distances of the records a search returned
ReturnedDistances == [i \in DOMAIN vs.filtered_results |-> vs.filtered_results[i].distance]

BelowThreshold(d) == Abs(d) < VECDB_DISTANCE_REJECT_COMPLETELY

\* C16: vecdb_search returns exactly the records of the handler's result
\* whose |distance| is strictly below 0.25, in the handler's order.
C16_ReturnsExactlyBelowThreshold ==
    vs.pc = "done" => ReturnedDistances = SelectSeq(vs.results, BelowThreshold)

C16_Witness ==
    /\ vs.pc = "done"
    /\ vs.results = ExampleDistances
    /\ ReturnedDistances = <<10, 18>>

\* C17: every returned record has usefulness
\* 100 - 75*clamp((|d| - d0)/(d0 + 0.01), 0, 1) with d0 the |distance| of the
\* first record of the batch, also when that distance is 0; the first record
\* has usefulness 100 and every usefulness is within 25..100.
C17_UsefulnessAnchoredAtBest ==
    vs.pc = "done" =>
        \A k \in DOMAIN vs.filtered_results :
            LET rec == vs.filtered_results[k]
            IN  /\ SameFraction(rec.usefulness,
                                Usefulness(rec.distance, Abs(vs.results[1])))
                /\ FractionWithin(rec.usefulness, 25, 100)
                /\ k = 1 => SameFraction(rec.usefulness, <<100, 1>>)

(***************************************************************************)
(* vecdb_background_reload, src/src/vecdb/vdb_highlev.rs lines 186-219,    *)
(* with cmdline.vecdb set.  Of the VecdbConstants only embedding_model     *)
(* varies.  rl.tasks is the instance whose background tasks are running,   *)
(* rl.aborted the instances whose tasks were aborted.                      *)
(***************************************************************************)
\* instances the supervisor makes
MaxReloads == 2

\* the instances, in the order they are made
DbNames == <<"db1", "db2", "db3", "db4">>

\* what the caps say of the embedding model: no caps, no model, or a model
CapsModels == {"nocaps", "", "m1", "m2"}

\* the caps change
CapsChange(model) ==
    /\ rl.caps # model
    /\ rl' = [rl EXCEPT !.caps = model]
    /\ UNCHANGED << registryVars, cacheVars, dirtyVars, resetVars, gcxVars, indexVars,
                    envVars, pc, registryTaskVars, gft, astVars, vs, bv, patchVars, splitVars, memVars, ops >>

\* do_i_need_to_reload_vecdb, lines 116-184: <<need_reload, consts>>, consts
\* "none" for None
DoINeedToReloadVecdb(caps, installed, db_model, tokenizer_ok) ==
    IF caps = "nocaps" THEN <<FALSE, "none">>
    ELSE IF installed # "none" /\ db_model = caps THEN <<FALSE, "none">>
    ELSE IF caps = "" THEN <<TRUE, "none">>
    ELSE IF ~tokenizer_ok THEN <<FALSE, "none">>
    ELSE <<TRUE, caps>>

\* line 195
ReloadCheck ==
    /\ rl.pc = "loop"
    /\ GcxFree
    /\ \E tokenizer_ok \in BOOLEAN :
         LET answer == DoINeedToReloadVecdb(rl.caps, vec_db, rl.db_model, tokenizer_ok)
         IN  rl' = [rl EXCEPT !.pc = "decided", !.need_reload = answer[1],
                              !.consts = answer[2]]
    /\ UNCHANGED << registryVars, cacheVars, dirtyVars, resetVars, gcxVars, indexVars,
                    envVars, pc, registryTaskVars, gft, astVars, vs, bv, patchVars, splitVars, memVars, ops >>

\* the holder is replaced without abort()
ReloadAbortMutantNoAbort ==
    /\ rl.pc = "decided"
    /\ rl' = [rl EXCEPT
                !.pc = IF rl.need_reload /\ rl.consts # "none" THEN "create" ELSE "sleep",
                !.tasks = IF rl.need_reload THEN "none" ELSE rl.tasks]
    /\ UNCHANGED << registryVars, cacheVars, dirtyVars, resetVars, gcxVars, indexVars,
                    envVars, pc, registryTaskVars, gft, astVars, vs, bv, patchVars, splitVars, memVars, ops >>

\* lines 196-200: the tasks are aborted when a reload is needed; the VecDb is
\* made anew only when there are constants
ReloadAbort ==
    /\ rl.pc = "decided"
    /\ rl' = [rl EXCEPT
                !.pc = IF rl.need_reload /\ rl.consts # "none" THEN "create" ELSE "sleep",
                !.tasks = IF rl.need_reload THEN "none" ELSE rl.tasks,
                !.aborted = IF rl.need_reload /\ rl.tasks # "none"
                            THEN rl.aborted \cup {rl.tasks} ELSE rl.aborted]
    /\ UNCHANGED << registryVars, cacheVars, dirtyVars, resetVars, gcxVars, indexVars,
                    envVars, pc, registryTaskVars, gft, astVars, vs, bv, patchVars, splitVars, memVars, ops >>

\* _create_vecdb returns Err at line 64, 89 or 95, before it touches
\* gcx.vec_db; lines 211-215
CreateVecdbFails ==
    /\ rl.pc = "create"
    /\ GcxFree
    /\ \E err \in {"no api key", "database is broken", "vecdb: test search failed"} :
         rl' = [rl EXCEPT !.pc = "sleep", !.vec_db_error = err]
    /\ UNCHANGED << registryVars, cacheVars, dirtyVars, resetVars, gcxVars, indexVars,
                    envVars, pc, registryTaskVars, gft, astVars, vs, bv, patchVars, splitVars, memVars, ops >>

\* _create_vecdb, lines 99-104: the new instance is installed and every
\* workspace file is enqueued
CreateVecdbInstall ==
    /\ rl.pc = "create"
    /\ rl.made < MaxReloads
    /\ pc["reload"] = "idle"
    /\ GcxFree
    /\ vec_db' = DbNames[rl.made + 1]
    /\ rl' = [rl EXCEPT !.pc = "enqueue", !.made = rl.made + 1, !.db_model = rl.consts]
    /\ EnqueueAllCall("reload", TRUE, TRUE)
    /\ Goto("reload", "ea_start")
    /\ UNCHANGED << registryVars, cacheVars, dirtyVars, resetVars, gcx_writer, ast_module,
                    indexVars, envVars, rb, ed, cb, esd, ctn, hist, gft, astVars, vs, bv, patchVars, splitVars, memVars, ops >>

\* _create_vecdb, lines 107-113, and lines 208-210: the background tasks of
\* the new instance start
CreateVecdbStartTasks ==
    /\ rl.pc = "enqueue"
    /\ pc["reload"] = "idle"
    /\ GcxFree
    /\ rl' = [rl EXCEPT !.pc = "sleep", !.tasks = vec_db, !.vec_db_error = ""]
    /\ UNCHANGED << registryVars, cacheVars, dirtyVars, resetVars, gcxVars, indexVars,
                    envVars, pc, registryTaskVars, gft, astVars, vs, bv, patchVars, splitVars, memVars, ops >>

\* line 217
ReloadSleep ==
    /\ rl.pc = "sleep"
    /\ rl' = [rl EXCEPT !.pc = "loop"]
    /\ UNCHANGED << registryVars, cacheVars, dirtyVars, resetVars, gcxVars, indexVars,
                    envVars, pc, registryTaskVars, gft, astVars, vs, bv, patchVars, splitVars, memVars, ops >>

VecdbBackgroundReload ==
    \/ ReloadCheck
    \/ ReloadAbort
    \/ CreateVecdbFails
    \/ CreateVecdbInstall
    \/ EnqueueAll("reload")
    \/ CreateVecdbStartTasks
    \/ ReloadSleep

ReloadNext ==
    \/ \E model \in CapsModels : CapsChange(model)
    \/ VecdbBackgroundReload

ReloadSpec == Init /\ [][ReloadNext]_vars

\* C18: when an iteration of the supervisor ends, gcx.vec_db is None or an
\* instance whose background tasks are running, never one whose tasks were
\* aborted, also when _create_vecdb failed or there were no usable constants.
C18_NoInstalledVecDbWithAbortedTasks ==
    rl.pc = "sleep" =>
        \/ vec_db = "none"
        \/ vec_db \notin rl.aborted /\ rl.tasks = vec_db

(***************************************************************************)
(* memories_block_until_vectorized, src/src/vecdb/vdb_highlev.rs lines     *)
(* 298-321, and the vectorizer thread it waits for.  bv.future is the      *)
(* Notified future of line 312: "none", "init" (created, not polled),      *)
(* "waiting" (polled, registered as a waiter) or "notified".  bv.permit    *)
(* is the permit notify_one leaves when nobody is waiting.                 *)
(* bv.awaited tells that the await of line 319 has returned in this call.  *)
(***************************************************************************)
bvUnchanged ==
    UNCHANGED << registryVars, cacheVars, dirtyVars, resetVars, gcxVars, indexVars,
                 envVars, pc, registryTaskVars, gft, astVars, vs, rl, patchVars, splitVars, memVars, ops >>

\* the vectorizer thread runs: the VecDb is installed and _create_vecdb has
\* started its background tasks
VectorizerRuns == vec_db # "none" /\ pc["reload"] = "idle"

\* vectorizer_enqueue_dirty_memory (memories_add, line 295) or
\* vectorizer_enqueue_files: there are additions to the queue
VectorizerEnqueue ==
    /\ VectorizerRuns
    /\ ~bv.queue_additions
    /\ bv' = [bv EXCEPT !.queue_additions = TRUE]
    /\ bvUnchanged

\* the thread takes the additions and parses
VectorizerParse ==
    /\ VectorizerRuns
    /\ bv.worker = "idle"
    /\ bv.queue_additions
    /\ bv' = [bv EXCEPT !.state = "parsing", !.queue_additions = FALSE]
    /\ bvUnchanged

\* the queue is empty
VectorizerCooldown ==
    /\ VectorizerRuns
    /\ bv.worker = "idle"
    /\ bv.state \in {"starting", "parsing"}
    /\ bv' = [bv EXCEPT !.state = "cooldown"]
    /\ bvUnchanged

\* no new work arrived during the cooldown: the state is "done", written
\* under the vstatus lock; the notification follows
VectorizerDone ==
    /\ VectorizerRuns
    /\ bv.worker = "idle"
    /\ bv.state = "cooldown"
    /\ ~bv.queue_additions
    /\ bv' = [bv EXCEPT !.state = "done", !.worker = "notify"]
    /\ bvUnchanged

\* Notify::notify_waiters: every Notified future that exists is notified,
\* polled or not; no permit is left
NotifyWaiters(w) ==
    [w EXCEPT !.future = IF w.future \in {"init", "waiting"} THEN "notified" ELSE w.future]

\* Notify::notify_one: a registered waiter is notified, else a permit is left
NotifyOne(w) ==
    IF w.future = "waiting" THEN [w EXCEPT !.future = "notified"]
    ELSE [w EXCEPT !.permit = TRUE]

\* the thread announces the change of status, one way or the other
VectorizerNotify ==
    /\ bv.worker = "notify"
    /\ \E all \in BOOLEAN :
         bv' = [(IF all THEN NotifyWaiters(bv) ELSE NotifyOne(bv)) EXCEPT !.worker = "idle"]
    /\ bvUnchanged

Vectorizer ==
    \/ VectorizerEnqueue
    \/ VectorizerParse
    \/ VectorizerCooldown
    \/ VectorizerDone
    \/ VectorizerNotify

\* only the state is looked at
VectorizedMutantStateOnly(state, queue_additions) == state = "done"

\* line 315
Vectorized(state, queue_additions) == state = "done" /\ ~queue_additions

\* lines 301-310: Err when there is no VecDb
BlockUntilVectorizedCall ==
    /\ bv.pc \in {"idle", "returned"}
    /\ bv' = IF vec_db = "none"
             THEN [bv EXCEPT !.pc = "returned", !.result = "Err"]
             ELSE [bv EXCEPT !.pc = "loop", !.result = "none", !.awaited = FALSE]
    /\ bvUnchanged

\* line 312
BlockUntilVectorizedNotified ==
    /\ bv.pc = "loop"
    /\ bv' = [bv EXCEPT !.pc = "check", !.future = "init"]
    /\ bvUnchanged

\* lines 313-318, under the vstatus lock, and lines 320-321
BlockUntilVectorizedCheck ==
    /\ bv.pc = "check"
    /\ bv' = IF Vectorized(bv.state, bv.queue_additions)
             THEN [bv EXCEPT !.pc = "returned", !.result = "Ok", !.future = "none"]
             ELSE [bv EXCEPT !.pc = "await"]
    /\ bvUnchanged

\* line 319, the first poll of the future: it is ready when notify_waiters
\* ran since line 312 or when there is a permit, else it registers
BlockUntilVectorizedAwait ==
    /\ bv.pc = "await"
    /\ bv' = IF bv.future = "notified"
             THEN [bv EXCEPT !.pc = "loop", !.future = "none", !.awaited = TRUE]
             ELSE IF bv.permit
             THEN [bv EXCEPT !.pc = "loop", !.future = "none", !.permit = FALSE,
                             !.awaited = TRUE]
             ELSE [bv EXCEPT !.pc = "waiting", !.future = "waiting"]
    /\ bvUnchanged

\* line 319: the registered future is notified
BlockUntilVectorizedWake ==
    /\ bv.pc = "waiting"
    /\ bv.future = "notified"
    /\ bv' = [bv EXCEPT !.pc = "loop", !.future = "none", !.awaited = TRUE]
    /\ bvUnchanged

MemoriesBlockUntilVectorized ==
    \/ BlockUntilVectorizedCall
    \/ BlockUntilVectorizedNotified
    \/ BlockUntilVectorizedCheck
    \/ BlockUntilVectorizedAwait
    \/ BlockUntilVectorizedWake

WaitNext ==
    \/ CreateVecdb
    \/ EnqueueAll("reload")
    \/ Vectorizer
    \/ MemoriesBlockUntilVectorized

\* the caller of memories_block_until_vectorized is scheduled
WaitSpec == Init /\ [][WaitNext]_vars /\ WF_vars(MemoriesBlockUntilVectorized)

\* the call is in its loop
InBlockUntilVectorized == bv.pc \in {"loop", "check", "await", "waiting"}

\* the thread has established the condition and has notified
VectorizedAndNotified == Vectorized(bv.state, bv.queue_additions) /\ bv.worker = "idle"

\* C19: memories_block_until_vectorized returns Ok only from a check that
\* found state = "done" and no queue additions; and once the thread has
\* established that and notified while the call is in its loop, wherever
\* in the loop, the call returns unless the condition stops holding.
C19_BlockUntilVectorized ==
    /\ [][(bv'.result = "Ok" /\ bv.result # "Ok") =>
             (bv.pc = "check" /\ bv.state = "done" /\ ~bv.queue_additions)]_vars
    /\ (InBlockUntilVectorized /\ VectorizedAndNotified)
         ~> (bv.pc = "returned" \/ ~Vectorized(bv.state, bv.queue_additions))

\* the call returned Ok after a notification ended its await (bv.awaited:
\* line 319 has returned in this call)
C19_Witness ==
    /\ bv.pc = "returned"
    /\ bv.result = "Ok"
    /\ bv.awaited

(***************************************************************************)
(* UnifiedDiffFormat::parse_message,                                       *)
(* src/src/tools/patch/unified_diff_format.rs lines 682-711.  A message is *)
(* a sequence of lines (content.lines()), a line a sequence of characters; *)
(* the character "~" stands for the backquote of a fence.                  *)
(* An Option is << >> for None and <<v>> for Some(v).  Indexes of lines of *)
(* a file count from 0 as in the code, indexes into sequences from 1.      *)
(***************************************************************************)
\* the longest message, in lines
MaxLines == 5

L_text      == <<"h", "i">>
L_diff      == <<"~", "~", "~", "d", "i", "f", "f">>
L_fence     == <<"~", "~", "~">>
L_before    == <<"-", "-", "-", " ", "a">>
L_after     == <<"+", "+", "+", " ", "a">>
L_separator == <<"@", "@", " ", ".", ".", ".", " ", "@", "@">>
L_plus      == <<"+", "x">>

\* the lines messages are made of
PatchLines == {L_text, L_diff, L_fence, L_before, L_after, L_separator, L_plus}

Messages == UNION { [1..n -> PatchLines] : n \in 0..MaxLines }

\* str::starts_with
StartsWith(line, prefix) ==
    Len(line) >= Len(prefix) /\ SubSeq(line, 1, Len(prefix)) = prefix

\* str::trim
RECURSIVE Trim(_)
Trim(str) ==
    IF str = <<>> THEN str
    ELSE IF Head(str) = " " THEN Trim(Tail(str))
    ELSE IF str[Len(str)] = " " THEN Trim(SubSeq(str, 1, Len(str) - 1))
    ELSE str

\* line[4..].trim().to_string(), lines 88-89, 109 and 122
PathOf(line) == Trim(SubSeq(line, 5, Len(line)))

\* the hunk is kept whatever its length
HunkIsEmptyMutantNever(hunk) == FALSE

\* a hunk of one line counts as empty too
HunkIsEmptyMutantOneLine(hunk) == Len(hunk) <= 2

\* line 134: only the separator itself is in the hunk
HunkIsEmpty(hunk) == Len(hunk) <= 1

\* an Edit, lines 15-19
Edit(before_path, after_path, hunk) ==
    [before_path |-> before_path, after_path |-> after_path, hunk |-> hunk]

\* lines 100-146: one iteration of the loop over the lines of the block; b
\* holds before_path, after_path, hunk, edits and add_remove_rename_block
ProcessBlockLine(b, line) ==
    LET hunk == Append(b.hunk, line)
        n    == Len(hunk)
    IN  IF Len(line) < 2 THEN [b EXCEPT !.hunk = hunk]
        ELSE IF /\ StartsWith(line, <<"+", "+", "+", " ">>)
                /\ n >= 3
                /\ StartsWith(hunk[n - 1], <<"-", "-", "-", " ">>)
        THEN [b EXCEPT !.before_path = <<PathOf(hunk[n - 1])>>,
                       !.after_path = <<PathOf(line)>>,
                       !.hunk = <<>>,
                       !.edits = Append(b.edits,
                                        Edit(b.before_path, b.after_path,
                                             IF hunk[n - 2] = <<"\n">>
                                             THEN SubSeq(hunk, 1, n - 3)
                                             ELSE SubSeq(hunk, 1, n - 2)))]
        ELSE IF \/ line[1] \in {"-", "+"}
                \/ b.add_remove_rename_block /\ line[1] # "@"
                \/ line[1] # "@"
        THEN [b EXCEPT !.hunk = hunk]
        ELSE IF HunkIsEmpty(hunk)
        THEN [b EXCEPT !.hunk = <<>>]
        ELSE [b EXCEPT !.hunk = <<>>,
                       !.edits = Append(b.edits,
                                        Edit(b.before_path, b.after_path,
                                             SubSeq(hunk, 1, n - 1)))]

\* the line that closes the block opened before start_line_num, lines 74-80
RECURSIVE FenceEnd(_, _)
FenceEnd(lines, line_num) ==
    IF line_num > Len(lines) \/ StartsWith(lines[line_num], L_fence) THEN line_num
    ELSE FenceEnd(lines, line_num + 1)

\* process_fenced_block, lines 74-98: the block, its header taken off, and
\* the locals the loop starts with
FencedBlock(lines, start_line_num) ==
    LET line_num == FenceEnd(lines, start_line_num)
        block == Append(SubSeq(lines, start_line_num, line_num - 1), <<"@", "@", " ", "@", "@">>)
        header == /\ StartsWith(block[1], <<"-", "-", "-", " ">>)
                  /\ StartsWith(block[2], <<"+", "+", "+", " ">>)
        before_path == IF header THEN <<PathOf(block[1])>> ELSE <<>>
        after_path == IF header THEN <<PathOf(block[2])>> ELSE <<>>
        dev_null == <<"/", "d", "e", "v", "/", "n", "u", "l", "l">>
    IN  [line_num |-> line_num,
         block |-> IF header THEN SubSeq(block, 3, Len(block)) ELSE block,
         i |-> 1,
         before_path |-> before_path,
         after_path |-> after_path,
         hunk |-> <<>>,
         edits |-> <<>>,
         add_remove_rename_block |->
            /\ header
            /\ \/ StartsWith(before_path[1], dev_null)
               \/ StartsWith(after_path[1], dev_null)
               \/ before_path[1] # after_path[1]]

\* get_edit_hunks, lines 157-166: the next line that opens a diff block,
\* Len(lines) + 1 if there is none
RECURSIVE NextDiffFence(_, _)
NextDiffFence(lines, line_num) ==
    IF line_num > Len(lines) \/ StartsWith(lines[line_num], L_diff) THEN line_num
    ELSE NextDiffFence(lines, line_num + 1)

MinOf(S) == CHOOSE x \in S : \A y \in S : x <= y

\* Option<T>
None == << >>
Some(v) == <<v>>

Last(s) == s[Len(s)]
Front(s) == SubSeq(s, 1, Len(s) - 1)

\* the white space a line may begin with: spaces and tabs
Tab == "\t"
IsWhitespace(c) == c \in {" ", Tab}

\* str::trim_start: the text behind the leading white space
RECURSIVE TrimStart(_)
TrimStart(str) ==
    IF str # << >> /\ IsWhitespace(Head(str)) THEN TrimStart(Tail(str)) ELSE str

\* lines 348-352 and 353-357: chars().take_while(|x| x.eq(&' ')).join("").len(),
\* the number of spaces the line begins with
RECURSIVE IdentsCount(_)
IdentsCount(str) ==
    IF str # << >> /\ Head(str) = " " THEN 1 + IdentsCount(Tail(str)) ELSE 0

\* " ".repeat(n)
Spaces(n) == [i \in 1..n |-> " "]

DevNull == <<"/", "d", "e", "v", "/", "n", "u", "l", "l">>

\* Rope::lines() of the text of a file and lines 244-255: the lines without
\* their line ends; the text is its lines and whether the last of them ends
\* with a line end.  An empty text has one empty line, and a line end at the
\* end of the text is followed by an empty line.
FileLines(text) ==
    IF text.lines = << >> \/ text.eol THEN Append(text.lines, << >>) ELSE text.lines

\* a DiffLine, lines 41-46
DiffLine(line, line_type, file_line_num_idx, correct_spaces_offset) ==
    [line |-> line, line_type |-> line_type,
     file_line_num_idx |-> file_line_num_idx,
     correct_spaces_offset |-> correct_spaces_offset]

\* a DiffBlock, lines 49-56
DiffBlock(before_path, after_path, action, diff_lines, hunk_idx, file_lines) ==
    [file_name_before |-> before_path, file_name_after |-> after_path,
     action |-> action, diff_lines |-> diff_lines, hunk_idx |-> hunk_idx,
     file_lines |-> file_lines]

\* the lines keep their '+'
MakeAddTypeDiffBlockMutantVerbatim(idx, before_path, after_path, edit) ==
    DiffBlock(before_path, after_path, "add",
              [k \in DOMAIN edit.hunk |-> DiffLine(edit.hunk[k], "Plus", Some(0), Some(0))],
              idx, << >>)

\* lines 172-190
MakeAddTypeDiffBlock(idx, before_path, after_path, edit) ==
    DiffBlock(before_path, after_path, "add",
              [k \in DOMAIN edit.hunk |->
                  DiffLine(IF StartsWith(edit.hunk[k], <<"+">>)
                           THEN Tail(edit.hunk[k]) ELSE edit.hunk[k],
                           "Plus", Some(0), Some(0))],
              idx, << >>)

\* lines 192-201
MakeRemoveTypeDiffBlock(idx, before_path, after_path) ==
    DiffBlock(before_path, after_path, "remove", << >>, idx, << >>)

\* lines 257-304: the blocks of one hunk of an edit or a rename; a block ends
\* where a line without a sign follows lines with one
RECURSIVE HunkBlocks(_, _, _, _, _)
HunkBlocks(hunk, i, current_lines, block_has_minus_plus, block) ==
    IF i > Len(hunk)
    THEN IF current_lines # << >>
         THEN <<[block EXCEPT !.diff_lines = current_lines]>> ELSE << >>
    ELSE LET line == hunk[i]
             has_any_line_no_leading_space ==
                 \E k \in DOMAIN hunk : ~StartsWith(hunk[k], <<" ">>)
         IN  IF StartsWith(line, <<"-">>) \/ StartsWith(line, <<"+">>)
             THEN HunkBlocks(hunk, i + 1,
                      Append(current_lines,
                             DiffLine(Tail(line),
                                      IF StartsWith(line, <<"+">>) THEN "Plus" ELSE "Minus",
                                      None, None)),
                      TRUE, block)
             ELSE LET space == DiffLine(IF ~has_any_line_no_leading_space
                                           /\ StartsWith(line, <<" ">>)
                                        THEN Tail(line) ELSE line,
                                        "Space", None, None)
                  IN  IF block_has_minus_plus
                      THEN <<[block EXCEPT !.diff_lines = current_lines]>>
                           \o HunkBlocks(hunk, i + 1, <<space>>, FALSE, block)
                      ELSE HunkBlocks(hunk, i + 1, Append(current_lines, space), FALSE, block)

\* lines 206-211
NoBeforeError == "cannot get a correct before file name from the diff chunk:"

\* no path exists
ExistsMutantNever(path, files) == FALSE

\* line 231: after_path.exists()
Exists(path, files) == path \in DOMAIN files

\* lines 205-305: the blocks of the hunks from idx on (idx counts from 0, as
\* enumerate()); files maps the paths that exist to their texts
RECURSIVE EditHunksToDiffBlocksFrom(_, _, _)
EditHunksToDiffBlocksFrom(edits, idx, files) ==
    IF idx >= Len(edits) THEN <<"Ok", << >> >>
    ELSE
    LET edit == edits[idx + 1]
    IN  IF edit.before_path = None
        THEN <<"Err", NoBeforeError>>
        ELSE IF edit.after_path = None
        THEN <<"Err", "cannot get a correct after file name from the diff chunk:">>
        ELSE
        LET before_path == edit.before_path[1]
            after_path == edit.after_path[1]
            rest == EditHunksToDiffBlocksFrom(edits, idx + 1, files)
            push(blocks) == IF rest[1] = "Ok" THEN <<"Ok", blocks \o rest[2]>> ELSE rest
        IN  IF before_path = DevNull
            THEN push(<<MakeAddTypeDiffBlock(idx, before_path, after_path, edit)>>)
            ELSE IF after_path = DevNull
            THEN push(<<MakeRemoveTypeDiffBlock(idx, before_path, after_path)>>)
            ELSE IF before_path # after_path /\ Exists(after_path, files)
            THEN <<"Err", "cannot rename, destination file name already exists",
                   before_path, after_path>>
            ELSE IF ReadFileFromDisk(before_path, DOMAIN files)[1] = "Err"
            THEN ReadFileFromDisk(before_path, DOMAIN files)
            ELSE push(HunkBlocks(edit.hunk, 1, << >>, FALSE,
                                 DiffBlock(before_path, after_path,
                                           IF before_path # after_path
                                           THEN "rename" ELSE "edit",
                                           << >>, idx, FileLines(files[before_path]))))

\* edit_hunks_to_diff_blocks, lines 171-307
EditHunksToDiffBlocks(edits, files) == EditHunksToDiffBlocksFrom(edits, 0, files)

\* lines 324-370: the longest span of diff lines from diff_line_start_offset
\* on, without a '+' line, that is found in the file at or after
\* file_line_start_offset, and the first place it is found at: the pair of
\* diff_line_span_size and file_line_idx, or None
SpanMatches(block, diff_line_start_offset, file_line_start_offset, diff_line_span_size, file_line_idx) ==
    LET span == SubSeq(block.diff_lines, diff_line_start_offset + 1,
                       diff_line_start_offset + diff_line_span_size)
        diff_lines_span == [k \in DOMAIN span |-> TrimStart(span[k].line)]
        file_lines_span ==
            [k \in 1..diff_line_span_size |-> TrimStart(block.file_lines[file_line_idx + k])]
    IN  /\ ~(/\ file_line_idx > file_line_start_offset
             /\ \/ file_lines_span = << >>
                \/ \A k \in DOMAIN diff_lines_span : diff_lines_span[k] = << >>)
        /\ file_lines_span = diff_lines_span

SpanSearched(block, diff_line_start_offset, diff_line_span_size) ==
    /\ \A k \in 1..diff_line_span_size :
           block.diff_lines[diff_line_start_offset + k].line_type # "Plus"
    /\ diff_line_span_size < Len(block.file_lines)

FoundSpan(block, diff_line_start_offset, file_line_start_offset) ==
    LET found == { m \in (1..(Len(block.diff_lines) - diff_line_start_offset))
                         \X (file_line_start_offset..Len(block.file_lines)) :
                     /\ SpanSearched(block, diff_line_start_offset, m[1])
                     /\ m[2] <= Len(block.file_lines) - m[1]
                     /\ SpanMatches(block, diff_line_start_offset,
                                    file_line_start_offset, m[1], m[2]) }
    IN  IF found = {} THEN None
        ELSE Some(CHOOSE m \in found :
                     \A o \in found : o[1] < m[1] \/ (o[1] = m[1] /\ m[2] <= o[2]))

\* lines 345-360: the lines of the span get their place in the file and the
\* difference of the idents
MarkSpan(block, diff_line_start_offset, diff_line_span_size, file_line_idx) ==
    [block EXCEPT !.diff_lines =
        [k \in DOMAIN block.diff_lines |->
            IF k > diff_line_start_offset /\ k <= diff_line_start_offset + diff_line_span_size
            THEN LET idx == k - diff_line_start_offset - 1
                 IN  [block.diff_lines[k] EXCEPT
                         !.file_line_num_idx = Some(file_line_idx + idx),
                         !.correct_spaces_offset =
                             Some(IdentsCount(block.file_lines[file_line_idx + idx + 1])
                                  - IdentsCount(block.diff_lines[k].line))]
            ELSE block.diff_lines[k]]]

\* lines 322-374, one block: the block with its lines located and the place
\* in the file the next block of the hunk is searched from
RECURSIVE LocateBlock(_, _, _)
LocateBlock(block, diff_line_start_offset, file_line_start_offset) ==
    IF diff_line_start_offset > Len(block.diff_lines)
    THEN <<block, file_line_start_offset>>
    ELSE LET found == FoundSpan(block, diff_line_start_offset, file_line_start_offset)
         IN  IF found = None
             THEN LocateBlock(block, diff_line_start_offset + 1, file_line_start_offset)
             ELSE LocateBlock(MarkSpan(block, diff_line_start_offset, found[1][1], found[1][2]),
                              diff_line_start_offset + found[1][1],
                              found[1][2] + found[1][1])

\* lines 319-375: the blocks of hunk i, in their order, from block k on
RECURSIVE LocateHunk(_, _, _, _)
LocateHunk(diff_blocks, i, k, file_line_start_offset) ==
    IF k > Len(diff_blocks) THEN diff_blocks
    ELSE IF diff_blocks[k].hunk_idx # i
    THEN LocateHunk(diff_blocks, i, k + 1, file_line_start_offset)
    ELSE LET located == LocateBlock(diff_blocks[k], 0, file_line_start_offset)
         IN  LocateHunk([diff_blocks EXCEPT ![k] = located[1]], i, k + 1, located[2])

\* search_diff_block_text_location, lines 309-377: i counts from 0 up to
\* the number of blocks
RECURSIVE SearchDiffBlockTextLocationFrom(_, _)
SearchDiffBlockTextLocationFrom(diff_blocks, i) ==
    IF i >= Len(diff_blocks) THEN diff_blocks
    ELSE SearchDiffBlockTextLocationFrom(LocateHunk(diff_blocks, i, 1, 0), i + 1)

SearchDiffBlockTextLocation(diff_blocks) == SearchDiffBlockTextLocationFrom(diff_blocks, 0)

\* join("\n") of line 386 or 387 followed by the str::lines() of diff::lines:
\* one empty line at the end is lost
JoinedLines(lines) ==
    IF lines # << >> /\ Last(lines) = << >> THEN Front(lines) ELSE lines

\* the length of the longest common subsequence of the first i lines of
\* left and the first j lines of right
RECURSIVE LcsLength(_, _, _, _)
LcsLength(left, right, i, j) ==
    IF i = 0 \/ j = 0 THEN 0
    ELSE IF left[i] = right[j] THEN LcsLength(left, right, i - 1, j - 1) + 1
    ELSE MaxOf({LcsLength(left, right, i, j - 1), LcsLength(left, right, i - 1, j)})

DiffResult(side, line) == [side |-> side, line |-> line]

\* the walk of the crate diff from the end of the table back to its start
RECURSIVE DiffWalk(_, _, _, _)
DiffWalk(left, right, i, j) ==
    IF j > 0 /\ (i = 0 \/ LcsLength(left, right, i, j) = LcsLength(left, right, i, j - 1))
    THEN Append(DiffWalk(left, right, i, j - 1), DiffResult("Right", right[j]))
    ELSE IF i > 0 /\ (j = 0 \/ LcsLength(left, right, i, j) = LcsLength(left, right, i - 1, j))
    THEN Append(DiffWalk(left, right, i - 1, j), DiffResult("Left", left[i]))
    ELSE IF i > 0 /\ j > 0
    THEN Append(DiffWalk(left, right, i - 1, j - 1), DiffResult("Both", left[i]))
    ELSE << >>

\* the number of lines left and right begin with in common
RECURSIVE LeadingEquals(_, _)
LeadingEquals(left, right) ==
    IF left # << >> /\ right # << >> /\ Head(left) = Head(right)
    THEN 1 + LeadingEquals(Tail(left), Tail(right)) ELSE 0

\* the number of lines left and right end with in common
RECURSIVE TrailingEquals(_, _)
TrailingEquals(left, right) ==
    IF left # << >> /\ right # << >> /\ Last(left) = Last(right)
    THEN 1 + TrailingEquals(Front(left), Front(right)) ELSE 0

\* diff::lines of line 388 (crate diff, longest common subsequence): the
\* lines both texts begin and end with are Both, the lines between them are
\* walked through the table
DiffOfLines(left, right) ==
    LET leading == LeadingEquals(left, right)
        l == SubSeq(left, leading + 1, Len(left))
        r == SubSeq(right, leading + 1, Len(right))
        trailing == TrailingEquals(l, r)
        lm == SubSeq(l, 1, Len(l) - trailing)
        rm == SubSeq(r, 1, Len(r) - trailing)
    IN  [k \in 1..leading |-> DiffResult("Both", left[k])]
        \o DiffWalk(lm, rm, Len(lm), Len(rm))
        \o [k \in 1..trailing |-> DiffResult("Both", l[Len(lm) + k])]

\* lines 389-436: the blocks made of the diff of the file and the lines of
\* the block
RECURSIVE AutoDiffBlocks(_, _, _, _, _)
AutoDiffBlocks(diff_block, diffs, k, line_num, diff_lines) ==
    LET exported == IF diff_lines # << >>
                    THEN <<[diff_block EXCEPT !.diff_lines = diff_lines]>> ELSE << >>
    IN  IF k > Len(diffs) THEN exported
        ELSE IF diffs[k].side = "Left"
        THEN AutoDiffBlocks(diff_block, diffs, k + 1, line_num + 1,
                 Append(diff_lines, DiffLine(diffs[k].line, "Minus", Some(line_num), Some(0))))
        ELSE IF diffs[k].side = "Right"
        THEN AutoDiffBlocks(diff_block, diffs, k + 1, line_num,
                 Append(diff_lines, DiffLine(diffs[k].line, "Plus", Some(line_num), Some(0))))
        ELSE exported \o AutoDiffBlocks(diff_block, diffs, k + 1, line_num + 1, << >>)

\* group_by of line 381: the last block of the run of blocks of one hunk
\* that starts at block k
RECURSIVE GroupEnd(_, _)
GroupEnd(diff_blocks, k) ==
    IF k < Len(diff_blocks) /\ diff_blocks[k + 1].hunk_idx = diff_blocks[k].hunk_idx
    THEN GroupEnd(diff_blocks, k + 1) ELSE k

\* splitting_diff_blocks, lines 379-445, from block k on
RECURSIVE SplittingDiffBlocksFrom(_, _)
SplittingDiffBlocksFrom(diff_blocks, k) ==
    IF k > Len(diff_blocks) THEN << >>
    ELSE LET e == GroupEnd(diff_blocks, k)
             diff_block == diff_blocks[k]
         IN  (IF /\ e = k
                 /\ diff_block.action = "edit"
                 /\ \A n \in DOMAIN diff_block.diff_lines :
                        diff_block.diff_lines[n].line_type = "Space"
              THEN AutoDiffBlocks(diff_block,
                       DiffOfLines(JoinedLines(diff_block.file_lines),
                                   JoinedLines([n \in DOMAIN diff_block.diff_lines |->
                                                   diff_block.diff_lines[n].line])),
                       1, 0, << >>)
              ELSE SubSeq(diff_blocks, k, e))
             \o SplittingDiffBlocksFrom(diff_blocks, e + 1)

SplittingDiffBlocks(diff_blocks) == SplittingDiffBlocksFrom(diff_blocks, 1)

\* Step 1, lines 459-467
FixIdents(diff_line) ==
    IF diff_line.correct_spaces_offset = None THEN diff_line
    ELSE LET offset == diff_line.correct_spaces_offset[1]
         IN  IF offset > 0
             THEN [diff_line EXCEPT !.line = Spaces(offset) \o diff_line.line]
             ELSE IF offset < 0
             THEN [diff_line EXCEPT !.line = SubSeq(diff_line.line, 1 - offset,
                                                    Len(diff_line.line))]
             ELSE diff_line

\* Step 2, lines 478-483
RECURSIVE SkipNotFoundSpaces(_)
SkipNotFoundSpaces(diff_lines) ==
    IF /\ diff_lines # << >>
       /\ Head(diff_lines).line_type = "Space"
       /\ Head(diff_lines).file_line_num_idx = None
    THEN SkipNotFoundSpaces(Tail(diff_lines)) ELSE diff_lines

\* Step 4, lines 493-510
FixMissingMinus(diff_lines) ==
    [idx \in DOMAIN diff_lines |->
        LET diff_line == diff_lines[idx]
            plus == { k \in DOMAIN diff_lines : k > idx /\ diff_lines[k].line_type = "Plus" }
        IN  IF /\ diff_line.line_type = "Space"
               /\ diff_line.file_line_num_idx # None
               /\ plus # {}
               /\ diff_line.line = diff_lines[MinOf(plus)].line
            THEN [diff_line EXCEPT !.line_type = "Minus"]
            ELSE diff_line]

\* Step 5, lines 513-520
\* a line without a place takes the top of the file
FillNotFoundMutantFromTop(diff_lines, k, last_file_line_num_idx) ==
    [j \in DOMAIN diff_lines |->
        IF diff_lines[j].file_line_num_idx # None THEN diff_lines[j]
        ELSE [diff_lines[j] EXCEPT !.file_line_num_idx = Some(0)]]

RECURSIVE FillNotFound(_, _, _)
FillNotFound(diff_lines, k, last_file_line_num_idx) ==
    IF k > Len(diff_lines) THEN << >>
    ELSE IF diff_lines[k].file_line_num_idx # None
    THEN <<diff_lines[k]>>
         \o FillNotFound(diff_lines, k + 1, Some(diff_lines[k].file_line_num_idx[1] + 1))
    ELSE <<[diff_lines[k] EXCEPT !.file_line_num_idx = last_file_line_num_idx]>>
         \o FillNotFound(diff_lines, k + 1, last_file_line_num_idx)

\* lines 529-532
NotFoundError == "blocks of code signed with - were not found in a file"

\* lines 523-527: a line with a sign and without a place in the file
IsNotFound(x) == x.line_type # "Space" /\ x.file_line_num_idx = None

\* normalize_diff_block, lines 453-536: Ok and the block, or Err and the
\* lines that were not found
NormalizeDiffBlock(diff_block) ==
    IF diff_block.diff_lines = << >> THEN <<"Ok", diff_block>>
    ELSE
    LET step1 == [k \in DOMAIN diff_block.diff_lines |-> FixIdents(diff_block.diff_lines[k])]
        step2 == SkipNotFoundSpaces(
                    IF step1[1].line_type = "Plus" /\ step1[1].file_line_num_idx = None
                    THEN <<[step1[1] EXCEPT !.file_line_num_idx = Some(0)]>> \o Tail(step1)
                    ELSE step1)
        step5 == FillNotFound(FixMissingMinus(step2), 1, None)
        non_found_lines == SelectSeq(step5, IsNotFound)
    IN  IF non_found_lines # << >>
        THEN <<"Err", NotFoundError,
               [k \in DOMAIN non_found_lines |->
                   <<non_found_lines[k].line_type, non_found_lines[k].line>>]>>
        ELSE <<"Ok", [diff_block EXCEPT !.diff_lines = step5]>>

\* lines 690-697: the blocks normalized in their order, up to the first Err
RECURSIVE NormalizeDiffBlocks(_, _)
NormalizeDiffBlocks(diff_blocks, k) ==
    IF k > Len(diff_blocks) THEN <<"Ok", << >> >>
    ELSE LET normalized == NormalizeDiffBlock(diff_blocks[k])
             rest == NormalizeDiffBlocks(diff_blocks, k + 1)
         IN  IF normalized[1] = "Err" THEN normalized
             ELSE IF rest[1] = "Err" THEN rest
             ELSE <<"Ok", <<normalized[2]>> \o rest[2]>>

\* lines 698-705
HasPlusOrMinus(block) ==
    block.action = "edit" =>
        \E k \in DOMAIN block.diff_lines : block.diff_lines[k].line_type \in {"Plus", "Minus"}

\* a DiffChunk, lines 571-594; lines_remove and lines_add are the lines, each
\* of which the code ends with a line end
DiffChunk(file_name, file_name_rename, file_action, line1, line2, lines_remove, lines_add) ==
    [file_name |-> file_name, file_name_rename |-> file_name_rename,
     file_action |-> file_action, line1 |-> line1, line2 |-> line2,
     lines_remove |-> lines_remove, lines_add |-> lines_add]

\* lines 545, 560 and 565
IsUseful(x) == x.line_type # "Space"
IsMinus(x) == x.line_type = "Minus"
IsPlus(x) == x.line_type = "Plus"

\* the place of the line itself
LastLineMutantPlace(x) == x.file_line_num_idx[1]

\* lines 582-588: the line behind the place of a '+' line, and the line
\* behind the line a '-' line removes
LastLine(x) == x.file_line_num_idx[1] + (IF x.line_type = "Plus" THEN 1 ELSE 2)

\* every chunk names the after path as the new name
BlockToDiffChunkMutantAlwaysRename(block) ==
    LET useful_block_lines == SelectSeq(block.diff_lines, IsUseful)
        minus == SelectSeq(useful_block_lines, IsMinus)
        plus == SelectSeq(useful_block_lines, IsPlus)
        lines_remove == [k \in DOMAIN minus |-> minus[k].line]
        lines_add == [k \in DOMAIN plus |-> plus[k].line]
        firsts == { useful_block_lines[k].file_line_num_idx[1] + 1 :
                        k \in DOMAIN useful_block_lines }
        lasts == { LastLine(useful_block_lines[k]) : k \in DOMAIN useful_block_lines }
    IN  IF lines_remove = lines_add THEN None
        ELSE Some(DiffChunk(
                 IF block.action = "add" THEN block.file_name_after
                 ELSE block.file_name_before,
                 Some(block.file_name_after),
                 block.action,
                 IF firsts = {} THEN 1 ELSE MinOf(firsts),
                 IF lasts = {} THEN 1 ELSE MaxOf(lasts),
                 lines_remove, lines_add))

\* lines 542-594: the chunk of a block, None if the block adds what it removes
BlockToDiffChunk(block) ==
    LET useful_block_lines == SelectSeq(block.diff_lines, IsUseful)
        minus == SelectSeq(useful_block_lines, IsMinus)
        plus == SelectSeq(useful_block_lines, IsPlus)
        lines_remove == [k \in DOMAIN minus |-> minus[k].line]
        lines_add == [k \in DOMAIN plus |-> plus[k].line]
        firsts == { useful_block_lines[k].file_line_num_idx[1] + 1 :
                        k \in DOMAIN useful_block_lines }
        lasts == { LastLine(useful_block_lines[k]) : k \in DOMAIN useful_block_lines }
    IN  IF lines_remove = lines_add THEN None
        ELSE Some(DiffChunk(
                 IF block.action = "add" THEN block.file_name_after
                 ELSE block.file_name_before,
                 IF block.action = "rename" THEN Some(block.file_name_after) ELSE None,
                 block.action,
                 IF firsts = {} THEN 1 ELSE MinOf(firsts),
                 IF lasts = {} THEN 1 ELSE MaxOf(lasts),
                 lines_remove, lines_add))

\* diff_blocks_to_diff_chunks, lines 538-597
RECURSIVE DiffBlocksToDiffChunks(_)
DiffBlocksToDiffChunks(diff_blocks) ==
    IF diff_blocks = << >> THEN << >>
    ELSE BlockToDiffChunk(Head(diff_blocks)) \o DiffBlocksToDiffChunks(Tail(diff_blocks))

\* Itertools::unique, line 708: the first of the chunks that are equal
RECURSIVE Unique(_)
Unique(chunks) ==
    IF chunks = << >> THEN << >>
    ELSE LET rest == Unique(Front(chunks))
         IN  IF Last(chunks) \in Range(rest) THEN rest ELSE Append(rest, Last(chunks))

\* lines 687-710: what parse_message makes of the result of
\* edit_hunks_to_diff_blocks
ParseMessageResult(diff_blocks) ==
    IF diff_blocks[1] = "Err" THEN diff_blocks
    ELSE LET normalized ==
                 NormalizeDiffBlocks(
                     SplittingDiffBlocks(SearchDiffBlockTextLocation(diff_blocks[2])), 1)
         IN  IF normalized[1] = "Err" THEN normalized
             ELSE <<"Ok", Unique(DiffBlocksToDiffChunks(SelectSeq(normalized[2], HasPlusOrMinus)))>>

\* lines 100-146, the loop over the lines of the block from line i on
RECURSIVE ProcessBlockLines(_, _)
ProcessBlockLines(b, i) ==
    IF i > Len(b.block) THEN b
    ELSE ProcessBlockLines(ProcessBlockLine(b, b.block[i]), i + 1)

\* the hunks of the first fenced diff only
GetEditHunksFromMutantFirstBlock(lines, line_num) ==
    LET fence == NextDiffFence(lines, line_num)
    IN  IF fence > Len(lines) THEN << >>
        ELSE ProcessBlockLines(FencedBlock(lines, fence + 1), 1).edits

\* get_edit_hunks, lines 151-169, from line line_num on
RECURSIVE GetEditHunksFrom(_, _)
GetEditHunksFrom(lines, line_num) ==
    LET fence == NextDiffFence(lines, line_num)
        b == ProcessBlockLines(FencedBlock(lines, fence + 1), 1)
    IN  IF fence > Len(lines) THEN << >>
        ELSE b.edits \o GetEditHunksFrom(lines, b.line_num + 1)

GetEditHunks(content) == GetEditHunksFrom(content, 1)

\* parse_message, lines 682-711
ParseMessageOf(content, files) ==
    ParseMessageResult(EditHunksToDiffBlocks(GetEditHunks(content), files))


pmUnchanged ==
    UNCHANGED << registryVars, cacheVars, dirtyVars, resetVars, gcxVars, indexVars,
                 envVars, pc, registryTaskVars, gft, astVars, vecdbVars, splitVars, memVars, ops >>

\* the text of a file: its lines, and whether the last of them ends with a
\* line end
Text(lines, eol) == [lines |-> lines, eol |-> eol]

\* line 686: get_edit_hunks starts at the first line; files maps the paths
\* that exist to their texts
ParseMessageCall(content, files) ==
    /\ pm.pc = "idle"
    /\ pm' = [pc |-> "scan", content |-> content, files |-> files, line_num |-> 1,
              edits |-> <<>>, b |-> <<>>, result |-> <<>>]
    /\ pmUnchanged

\* get_edit_hunks, lines 156-167: up to the next diff block, which
\* process_fenced_block is called for, or to the end of the message
GetEditHunksScan ==
    /\ pm.pc = "scan"
    /\ LET line_num == NextDiffFence(pm.content, pm.line_num)
       IN  pm' = IF line_num > Len(pm.content)
                 THEN [pm EXCEPT !.pc = "blocks", !.line_num = line_num]
                 ELSE [pm EXCEPT !.pc = "block", !.line_num = line_num,
                                 !.b = FencedBlock(pm.content, line_num + 1)]
    /\ pmUnchanged

\* process_fenced_block, lines 100-146: the next line of the block
ProcessFencedBlockLine ==
    /\ pm.pc = "block"
    /\ pm.b.i <= Len(pm.b.block)
    /\ pm' = [pm EXCEPT !.b = [ProcessBlockLine(pm.b, pm.b.block[pm.b.i])
                                  EXCEPT !.i = pm.b.i + 1]]
    /\ pmUnchanged

\* process_fenced_block returns, line 148, and get_edit_hunks goes on behind
\* the closing fence, lines 160-163
ProcessFencedBlockReturn ==
    /\ pm.pc = "block"
    /\ pm.b.i > Len(pm.b.block)
    /\ pm' = [pm EXCEPT !.pc = "scan", !.line_num = pm.b.line_num + 1,
                        !.edits = pm.edits \o pm.b.edits, !.b = <<>>]
    /\ pmUnchanged

\* lines 687-710
ParseMessageChunks ==
    /\ pm.pc = "blocks"
    /\ pm' = [pm EXCEPT !.pc = "done",
                        !.result = ParseMessageResult(EditHunksToDiffBlocks(pm.edits, pm.files))]
    /\ pmUnchanged

\* a message arrives
ParseMessage ==
    /\ pm.pc = "idle"
    /\ \E content \in Messages :
           ParseMessageCall(content, [path \in disk |-> Text(<<>>, FALSE)])

PatchNext ==
    \/ ParseMessage
    \/ GetEditHunksScan
    \/ ProcessFencedBlockLine
    \/ ProcessFencedBlockReturn
    \/ ParseMessageChunks

PatchSpec == Init /\ [][PatchNext]_vars

\* the message has no line that opens a diff block
NoDiffFence(content) == \A i \in DOMAIN content : ~StartsWith(content[i], L_diff)

IsHeader(content, i) ==
    /\ i + 1 <= Len(content)
    /\ StartsWith(content[i], <<"-", "-", "-", " ">>)
    /\ StartsWith(content[i + 1], <<"+", "+", "+", " ">>)

IsSeparator(line) == StartsWith(line, <<"@", "@">>)

\* from line i on, outside a block: every diff block of the message is a
\* header, one or more separators and nothing else, up to its closing fence
\* or the end of the message
RECURSIVE HeaderOnlyBlocksFrom(_, _)
RECURSIVE SeparatorsFrom(_, _)
HeaderOnlyBlocksFrom(content, i) ==
    IF i > Len(content) THEN TRUE
    ELSE IF StartsWith(content[i], L_diff)
    THEN /\ IsHeader(content, i + 1)
         /\ i + 3 <= Len(content)
         /\ IsSeparator(content[i + 3])
         /\ SeparatorsFrom(content, i + 4)
    ELSE HeaderOnlyBlocksFrom(content, i + 1)

SeparatorsFrom(content, i) ==
    IF i > Len(content) THEN TRUE
    ELSE IF IsSeparator(content[i]) THEN SeparatorsFrom(content, i + 1)
    ELSE IF content[i] = L_fence THEN HeaderOnlyBlocksFrom(content, i + 1)
    ELSE FALSE

\* the message contains no hunk
NoHunk(content) ==
    \/ content = <<>>
    \/ NoDiffFence(content)
    \/ HeaderOnlyBlocksFrom(content, 1)

MaxHunkLines == 3
MaxFileLines == 3

\* the lines of the file and the lines of a hunk
FileLineKinds == {<<"x">>, <<"y">>}
HunkLineKinds == {<<"-", "x">>, <<"-", "y">>, <<"+", "x">>, <<"+", "y">>,
                  <<" ", "x">>, <<"x">>}

SeqsUpTo(S, n) == UNION { [1..k -> S] : k \in 0..n }

\* the texts the file F_ax may have; a text without a line has no line end
FileTexts ==
    { Text(lines, eol) : lines \in SeqsUpTo(FileLineKinds, MaxFileLines), eol \in BOOLEAN }
        \ { Text(<< >>, TRUE) }

\* the headers: an edit, an add, a remove, a rename, a rename to a file that
\* exists, and an edit of a file that does not exist
HeaderKinds == {<<F_ax, F_ax>>, <<DevNull, F_m>>, <<F_ax, DevNull>>, <<F_ax, F_m>>,
                <<F_ax, F_abx>>, <<F_m, F_m>>}

HeaderLines(header) ==
    << <<"-", "-", "-", " ">> \o header[1], <<"+", "+", "+", " ">> \o header[2] >>

\* a fenced diff with a header, a separator and the lines of one hunk
FencedDiff(header, hunk) ==
    <<L_diff>> \o HeaderLines(header) \o <<L_separator>> \o hunk \o <<L_fence>>

\* a fenced diff without a header, with or without a separator and a
\* closing fence
HeaderlessDiff(hunk, separator, closed) ==
    <<L_diff>> \o (IF separator THEN <<L_separator>> ELSE << >>) \o hunk
        \o (IF closed THEN <<L_fence>> ELSE << >>)

OneBlockMessages ==
    { FencedDiff(header, hunk) :
        header \in HeaderKinds, hunk \in SeqsUpTo(HunkLineKinds, MaxHunkLines) }

HeaderlessMessages ==
    { HeaderlessDiff(hunk, separator, closed) :
        hunk \in SeqsUpTo(HunkLineKinds, 2),
        separator \in BOOLEAN, closed \in BOOLEAN }

\* two fenced diffs of one line each, with text between them
TwoBlockMessages ==
    { FencedDiff(h1, <<l1>>) \o <<L_text>> \o FencedDiff(h2, <<l2>>) :
        h1 \in HeaderKinds, h2 \in HeaderKinds,
        l1 \in HunkLineKinds, l2 \in HunkLineKinds }

\* a fenced diff of one line and, after some text, a fenced diff of one line
\* without a header
MixedMessages ==
    { FencedDiff(h1, <<l1>>) \o <<L_text>> \o HeaderlessDiff(<<l2>>, FALSE, closed) :
        h1 \in HeaderKinds, l1 \in HunkLineKinds, l2 \in HunkLineKinds, closed \in BOOLEAN }

DiffMessages == OneBlockMessages \cup HeaderlessMessages \cup TwoBlockMessages \cup MixedMessages

\* the files on disk when the message arrives
FilesWith(text) ==
    [path \in disk |-> IF path = F_ax THEN text ELSE Text(<< <<"y">> >>, TRUE)]

\* lines 682-686: a message made of fenced diffs arrives and get_edit_hunks
\* has read it
ParseDiffMessage ==
    /\ pm.pc = "idle"
    /\ \E content \in DiffMessages, text \in FileTexts :
           pm' = [pc |-> "blocks", content |-> content, files |-> FilesWith(text),
                  line_num |-> Len(content) + 1, edits |-> GetEditHunks(content),
                  b |-> <<>>, result |-> <<>>]
    /\ pmUnchanged

ChunkNext ==
    \/ ParseDiffMessage
    \/ ParseMessageChunks

ChunkInit ==
    /\ NewDocumentsState(<<D_a>>)
    /\ Construction(FALSE)
    /\ disk = DiskFiles

ChunkSpec == ChunkInit /\ [][ChunkNext]_vars

\* parse_message has returned chunks
Returned == pm.pc = "done" /\ pm.result[1] = "Ok"
Chunks == pm.result[2]

\* C22: every chunk parse_message returns has 1 <= line1 <= line2.
C22_LinesInOrder ==
    Returned => \A k \in DOMAIN Chunks : 1 <= Chunks[k].line1 /\ Chunks[k].line1 <= Chunks[k].line2

\* a chunk that ends behind the line it starts at was returned
C22_Witness ==
    /\ Returned
    /\ \E k \in DOMAIN Chunks : Chunks[k].line1 > 1 /\ Chunks[k].line2 > Chunks[k].line1

(***************************************************************************)
(* parse_message on two messages and on the two one after the other.  The  *)
(* first message names F_ax and F_m only, the second F_abx only.           *)
(***************************************************************************)
FirstPatches ==
    { FencedDiff(header, hunk) :
        header \in {<<F_ax, F_ax>>, <<F_ax, F_m>>, <<DevNull, F_m>>},
        hunk \in SeqsUpTo(HunkLineKinds, 2) }

SecondPatches ==
    { FencedDiff(header, hunk) :
        header \in {<<F_abx, F_abx>>, <<F_abx, DevNull>>},
        hunk \in SeqsUpTo(HunkLineKinds, 2) }

\* the texts of the two files
PairTexts == {Text(<< <<"y">>, <<"x">> >>, TRUE), Text(<< <<"x">>, <<"y">> >>, FALSE)}

\* the two messages and the files are chosen
ConcatChoose ==
    /\ pm.pc = "idle"
    /\ \E a \in FirstPatches, b \in SecondPatches, ta \in PairTexts, tb \in PairTexts :
           pm' = [pc |-> "first", a |-> a, b |-> b,
                  files |-> [path \in disk |-> IF path = F_ax THEN ta ELSE tb],
                  first |-> <<>>, second |-> <<>>, both |-> <<>>, reversed |-> <<>>]
    /\ pmUnchanged

\* parse_message(A)
ConcatParseFirst ==
    /\ pm.pc = "first"
    /\ pm' = [pm EXCEPT !.pc = "second", !.first = ParseMessageOf(pm.a, pm.files)]
    /\ pmUnchanged

\* parse_message(B)
ConcatParseSecond ==
    /\ pm.pc = "second"
    /\ pm' = [pm EXCEPT !.pc = "both", !.second = ParseMessageOf(pm.b, pm.files)]
    /\ pmUnchanged

\* parse_message(A followed by B)
ConcatParseBoth ==
    /\ pm.pc = "both"
    /\ pm' = [pm EXCEPT !.pc = "reversed", !.both = ParseMessageOf(pm.a \o pm.b, pm.files)]
    /\ pmUnchanged

\* parse_message(B followed by A)
ConcatParseReversed ==
    /\ pm.pc = "reversed"
    /\ pm' = [pm EXCEPT !.pc = "compared",
                        !.reversed = ParseMessageOf(pm.b \o pm.a, pm.files)]
    /\ pmUnchanged

ConcatNext ==
    \/ ConcatChoose
    \/ ConcatParseFirst
    \/ ConcatParseSecond
    \/ ConcatParseBoth
    \/ ConcatParseReversed

ConcatSpec == ChunkInit /\ [][ConcatNext]_vars

\* both messages are valid: parse_message returns chunks for each
BothValid == pm.pc = "compared" /\ pm.first[1] = "Ok" /\ pm.second[1] = "Ok"

\* C21: for two valid messages A and B about disjoint files, each a closed
\* fenced diff, parse_message(A followed by B) returns the chunks of A
\* followed by the chunks of B, and parse_message(B followed by A) the
\* chunks of B followed by the chunks of A.
C21_ConcatenationIsUnion ==
    BothValid =>
        /\ pm.both = <<"Ok", pm.first[2] \o pm.second[2]>>
        /\ pm.reversed = <<"Ok", pm.second[2] \o pm.first[2]>>

\* both messages gave a chunk, and the second message's chunk is not at the
\* top of its file
C21_Witness ==
    /\ BothValid
    /\ pm.first[2] # << >>
    /\ pm.second[2] # << >>
    /\ pm.second[2][1].line1 > 1

\* the message is one fenced diff with this header and a hunk of one line
\* or more
IsFencedDiffOf(content, header) ==
    /\ Len(content) >= 6
    /\ SubSeq(content, 1, 4) = <<L_diff>> \o HeaderLines(header) \o <<L_separator>>
    /\ \A k \in 5..(Len(content) - 1) : content[k] \in HunkLineKinds
    /\ Last(content) = L_fence

\* the hunk of such a message
HunkOf(content) == SubSeq(content, 5, Len(content) - 1)

\* the hunk has no line with a sign
NoEffectiveEdits(hunk) ==
    \A k \in DOMAIN hunk : hunk[k][1] \notin {"-", "+"}

\* C23: a fenced diff with the header --- path / +++ /dev/null makes
\* parse_message return exactly one chunk, a "remove" of path with no lines
\* and line1 = line2 = 1; a fenced diff with two distinct paths in its
\* header and no effective edit returns exactly one "rename" chunk with the
\* old and the new path.
C23_RemoveAndRenameChunks ==
    /\ (pm.pc = "done" /\ IsFencedDiffOf(pm.content, <<F_ax, DevNull>>))
          => pm.result = <<"Ok", <<DiffChunk(F_ax, None, "remove", 1, 1, << >>, << >>)>> >>
    /\ (pm.pc = "done" /\ IsFencedDiffOf(pm.content, <<F_ax, F_m>>)
           /\ NoEffectiveEdits(HunkOf(pm.content)))
          => pm.result = <<"Ok", <<DiffChunk(F_ax, Some(F_m), "rename", 1, 1, << >>, << >>)>> >>

\* the line without its leading '+', if it has one
WithoutPlus(line) == IF line # << >> /\ Head(line) = "+" THEN Tail(line) ELSE line

\* C24: a fenced diff whose before-path is /dev/null returns exactly one
\* chunk: an "add" of the after-path without a rename, with line1 = line2 =
\* 1, no removed line, and as added lines all lines of the hunk in their
\* order, a leading '+' taken off the lines that have one.
C24_AddChunk ==
    (pm.pc = "done" /\ IsFencedDiffOf(pm.content, <<DevNull, F_m>>))
        => pm.result =
             <<"Ok", <<DiffChunk(F_m, None, "add", 1, 1, << >>,
                                 [k \in DOMAIN HunkOf(pm.content) |->
                                     WithoutPlus(HunkOf(pm.content)[k])])>> >>

\* a file of three lines was added, with and without '+' on its lines
C24_Witness ==
    /\ pm.pc = "done"
    /\ pm.content = FencedDiff(<<DevNull, F_m>>, << <<"+", "x">>, <<"x">>, <<"-", "y">> >>)
    /\ pm.result[1] = "Ok"
    /\ pm.result[2][1].lines_add = << <<"x">>, <<"x">>, <<"-", "y">> >>

\* the hunk names two distinct paths, none of them /dev/null, and the
\* second one exists
RenamesToExisting(edit, files) ==
    /\ edit.before_path # None /\ edit.after_path # None
    /\ edit.before_path # edit.after_path
    /\ DevNull \notin {edit.before_path[1], edit.after_path[1]}
    /\ edit.after_path[1] \in DOMAIN files

\* parse_message returns chunks for a message with this hunk alone
ValidHunk(edit, files) ==
    ParseMessageResult(EditHunksToDiffBlocks(<<edit>>, files))[1] = "Ok"

\* C25: if a hunk of the message names two distinct non-null paths and the
\* second one exists, parse_message returns an error and no chunk, whatever
\* the other hunks of the message are; the error is the one about the
\* destination of the rename when the other hunks are valid.
C25_RenameToExistingFails ==
    (pm.pc = "done" /\ \E k \in DOMAIN pm.edits : RenamesToExisting(pm.edits[k], pm.files))
        => /\ pm.result[1] = "Err"
           /\ (\A k \in DOMAIN pm.edits :
                   \/ RenamesToExisting(pm.edits[k], pm.files)
                   \/ ValidHunk(pm.edits[k], pm.files))
                => pm.result[2] = "cannot rename, destination file name already exists"

\* a message with a valid hunk that gives a chunk on its own, followed by a
\* rename to a file that exists, was refused
C25_Witness ==
    /\ pm.pc = "done"
    /\ Len(pm.edits) = 2
    /\ ~RenamesToExisting(pm.edits[1], pm.files)
    /\ ValidHunk(pm.edits[1], pm.files)
    /\ ParseMessageResult(EditHunksToDiffBlocks(<<pm.edits[1]>>, pm.files))[2] # << >>
    /\ RenamesToExisting(pm.edits[2], pm.files)
    /\ pm.result = <<"Err", "cannot rename, destination file name already exists",
                     F_ax, F_abx>>

\* edit_hunks_to_diff_blocks has returned blocks for the message
HasBlocks == pm.pc = "done" /\ EditHunksToDiffBlocks(pm.edits, pm.files)[1] = "Ok"

\* the blocks normalize_diff_block is called with, lines 688-690
LocatedBlocks ==
    SplittingDiffBlocks(SearchDiffBlockTextLocation(EditHunksToDiffBlocks(pm.edits, pm.files)[2]))

\* line k of the block is a '-' line whose left-trimmed text equals no line
\* of the file
UnmatchedMinus(block, k) ==
    /\ block.action \in {"edit", "rename"}
    /\ block.diff_lines[k].line_type = "Minus"
    /\ \A n \in DOMAIN block.file_lines :
           TrimStart(block.file_lines[n]) # TrimStart(block.diff_lines[k].line)

\* no line of the block before line k has a place in the file when Step 5
\* begins: none was located, and Step 2 has not put the first line at 0
NoPlaceBefore(block, k) ==
    /\ block.diff_lines[1].line_type # "Plus"
    /\ \A j \in 1..(k - 1) : block.diff_lines[j].file_line_num_idx = None

\* the block has a line with a sign that normalize_diff_block reports
Fails(block) == NormalizeDiffBlock(block)[1] = "Err"

C27_SpanIsRemovedLines ==
    Returned => \A k \in DOMAIN Chunks :
                    Chunks[k].file_action = "edit"
                        => Chunks[k].line2 - Chunks[k].line1 = Len(Chunks[k].lines_remove)

\* the message has a fenced diff without a header and with lines that are
\* not separators
HeaderlessWithLines(content) ==
    \/ \E hunk \in SeqsUpTo(HunkLineKinds, 2) \ {<< >>}, separator \in BOOLEAN, closed \in BOOLEAN :
           content = HeaderlessDiff(hunk, separator, closed)
    \/ content \in MixedMessages

MaxSplitLines == 3
MaxSymbols == 2

\* every line of the text is one character and its line end
LineLen == 2

SoftWindows == {2, 4}

\* a symbol of the parser: its full_range, and whether get_content can read
\* its file
SymbolsOf(n) ==
    { symbol \in [start_row : 0..(n - 1), end_row : 0..(n - 1), readable : BOOLEAN] :
        symbol.start_row <= symbol.end_row }

SplitResult(start_line, end_line) == [start_line |-> start_line, end_line |-> end_line]

\* the fallback splitter: windows of soft_window lines over the n lines of a
\* text, from line start_line on, each window beginning overlap lines before
\* the end of the window before it
RECURSIVE FallbackWindowsFrom(_, _, _, _)
FallbackWindowsFrom(n, soft_window, overlap, start_line) ==
    IF start_line >= n THEN << >>
    ELSE LET end_line == Min2(start_line + soft_window - 1, n - 1)
         IN  <<SplitResult(start_line, end_line)>>
             \o (IF end_line = n - 1 THEN << >>
                 ELSE FallbackWindowsFrom(n, soft_window, overlap,
                                          start_line + soft_window - overlap))

FallbackSplit(n, soft_window, overlap) == FallbackWindowsFrom(n, soft_window, overlap, 0)

\* get_content, ast_instance_structs.rs lines 141-151: the rows of the symbol
\* that the text has, with their line ends
ContentRows(symbol, n) ==
    LET end_row == Min2(symbol.end_row + 1, n)
        start_row == Min2(Min2(symbol.start_row, n), end_row)
    IN  end_row - start_row

\* lines 96-99: the windows of the fallback splitter move by the row the
\* symbol starts at
Offset(windows, row) ==
    [k \in DOMAIN windows |->
        SplitResult(windows[k].start_line + row, windows[k].end_line + row)]

\* lines 61-119, one turn of the loop: the chunks of one symbol
SymbolChunks(symbol, n, soft_window, overlap) ==
    IF ~symbol.readable THEN << >>
    ELSE IF ContentRows(symbol, n) * LineLen > soft_window
    THEN Offset(FallbackSplit(ContentRows(symbol, n), soft_window, overlap), symbol.start_row)
    ELSE <<SplitResult(symbol.start_row, symbol.end_row)>>

spUnchanged ==
    UNCHANGED << registryVars, cacheVars, dirtyVars, resetVars, gcxVars, indexVars,
                 envVars, pc, registryTaskVars, gft, astVars, vecdbVars, patchVars, memVars, ops >>

\* lines 35-40: split is called on a document of n lines; has_parser tells
\* whether get_ast_parser_by_filename knows the file's extension, has_text
\* whether get_text_or_read_from_disk gets the text, symbols is what the
\* parser makes of the text
Split ==
    /\ sp.pc = "idle"
    /\ \E n \in 0..MaxSplitLines, has_parser \in BOOLEAN, has_text \in BOOLEAN,
          soft_window \in SoftWindows, overlap \in {0, 1} :
         \E symbols \in SeqsUpTo(SymbolsOf(n), IF has_parser /\ has_text THEN MaxSymbols ELSE 0) :
           sp' = [pc |-> "parser", n |-> n, has_parser |-> has_parser, has_text |-> has_text,
                  soft_window |-> soft_window, overlap |-> overlap, symbols |-> symbols,
                  i |-> 1, chunks |-> << >>, result |-> << >>]
    /\ spUnchanged

\* lines 41-47: without a parser the fallback splitter splits the document
SplitFallback ==
    /\ sp.pc = "parser"
    /\ ~sp.has_parser
    /\ sp' = [sp EXCEPT !.pc = "done",
                        !.result = IF sp.has_text
                                   THEN <<"Ok", FallbackSplit(sp.n, sp.soft_window, sp.overlap)>>
                                   ELSE <<"Err", "io">>]
    /\ spUnchanged

\* lines 48-59: the text is read and parsed
SplitParse ==
    /\ sp.pc = "parser"
    /\ sp.has_parser
    /\ sp' = IF sp.has_text THEN [sp EXCEPT !.pc = "symbols"]
             ELSE [sp EXCEPT !.pc = "done", !.result = <<"Err", "io">>]
    /\ spUnchanged

\* lines 60-119: one symbol
SplitSymbol ==
    /\ sp.pc = "symbols"
    /\ sp.i <= Len(sp.symbols)
    /\ sp' = [sp EXCEPT !.i = sp.i + 1,
                        !.chunks = sp.chunks \o SymbolChunks(sp.symbols[sp.i], sp.n,
                                                             sp.soft_window, sp.overlap)]
    /\ spUnchanged

\* line 124
SplitReturn ==
    /\ sp.pc = "symbols"
    /\ sp.i > Len(sp.symbols)
    /\ sp' = [sp EXCEPT !.pc = "done", !.result = <<"Ok", sp.chunks>>]
    /\ spUnchanged

SplitNext ==
    \/ Split
    \/ SplitFallback
    \/ SplitParse
    \/ SplitSymbol
    \/ SplitReturn

SplitSpec == Init /\ [][SplitNext]_vars

\* the lines two windows have in common
Overlap(a, b) == Cardinality((a.start_line..a.end_line) \cap (b.start_line..b.end_line))

\* C28: the windows split returns cover every line of the text, and two
\* windows have at most soft_window lines in common, with and without a
\* parser.
C28_WindowsCoverText ==
    (sp.pc = "done" /\ sp.result[1] = "Ok")
        => /\ \A line \in 0..(sp.n - 1) :
                  \E k \in DOMAIN sp.result[2] :
                      line \in sp.result[2][k].start_line..sp.result[2][k].end_line
           /\ \A k, l \in DOMAIN sp.result[2] :
                  k # l => Overlap(sp.result[2][k], sp.result[2][l]) <= sp.soft_window

\* C29: workspace_files is a set: it holds no path twice, whatever folders
\* were added and removed and however often the workspace folders were
\* enumerated.
C29_WorkspaceFilesIsSet ==
    \A i, j \in DOMAIN workspace_files : workspace_files[i] = workspace_files[j] => i = j

(***************************************************************************)
(* The two locks of the registry: the ARwLock of the global context and    *)
(* the AMutex of cache_dirty.                                              *)
(***************************************************************************)
\* t holds the cache_dirty guard and is at a gcx.read() or gcx.write() of
\* lines 49-51 and 80
HoldsDirtyWaitsForGcx(t) ==
    cache_dirty_owner = t /\ pc[t] \in {"rb_memory", "rb_workspace", "rb_store"}

\* t holds the write guard of line 489 and is at cache_dirty.lock() of line 490
HoldsGcxWaitsForDirty(t) == gcx_writer = t /\ pc[t] = "ea_replace"

\* t holds the write guard of line 302 and is at gcx.write() of line 304
HoldsGcxWaitsForGcx(t) == gcx_writer = t /\ pc[t] = "cb_set_deadline"

\* C31: no task waits for the global context while it holds cache_dirty and
\* another task waits for cache_dirty while it holds the global context, and
\* no task asks for the write guard of the global context while it holds it.
C31_NoLockDeadlock ==
    /\ \A t, u \in Tasks : ~(HoldsDirtyWaitsForGcx(t) /\ HoldsGcxWaitsForDirty(u))
    /\ \A t \in Tasks : ~HoldsGcxWaitsForGcx(t)

(***************************************************************************)
(* RemoveSpec: remove_folder while _create_vecdb enumerates the workspace  *)
(* on its own task.  The disk does not change.                             *)
(***************************************************************************)
RemoveNext ==
    \/ CreateVecdb
    \/ \E path \in Folders : RemoveFolder(path)
    \/ \E c \in {"ws", "reload"} : EnqueueAll(c)

RemoveSpec == Init /\ [][RemoveNext]_vars

\* remove_folder has returned and no enqueue_all_files_from_workspace_folders
\* call is running
RemoveFolderSettled ==
    /\ \A c \in EnqueueCallers : ~EnqueueAllActive(c)
    /\ "ret" \in DOMAIN ea["ws"]
    /\ ea["ws"].ret >= 0

\* C32: when remove_folder has returned and every call of
\* enqueue_all_files_from_workspace_folders has finished, workspace_files is
\* the enumeration of the workspace folders that remain.
C32_RemovedFolderStaysRemoved ==
    RemoveFolderSettled => workspace_files = RetrieveFilesByProjFolders(workspace_folders, disk)

\* C33: when a call of enqueue_all_files_from_workspace_folders, whatever its
\* flags, has dropped a path from workspace_files that the AST indexer was
\* given, the AST index is reset or told to remove the path by the time the
\* call returns, so that it keeps no symbols of a path workspace_files lacks.
C33_DroppedPathsLeaveAst ==
    [][\A c \in EnqueueCallers :
         (EnqueueAllReturns(c) /\ ea[c].ast_module) =>
            \A q \in ea[c].removed_old :
                q \in ast_queue => (ast_resets' > ast_resets \/ q \in ast_removed')]_vars

\* the blocks as search_diff_block_text_location leaves them, line 688
SearchedBlocks == SearchDiffBlockTextLocation(EditHunksToDiffBlocks(pm.edits, pm.files)[2])

\* block n is the first block of its hunk: it is searched from the top of
\* the file
FirstOfHunk(diff_blocks, n) ==
    \A o \in 1..(n - 1) : diff_blocks[o].hunk_idx # diff_blocks[n].hunk_idx

\* the first k lines of the block are no '+' lines, and the file has k lines
\* in a row with the same left-trimmed texts
LeadingRunInFile(block, k) ==
    /\ \A j \in 1..k : block.diff_lines[j].line_type # "Plus"
    /\ \E f \in 0..(Len(block.file_lines) - k) :
           \A j \in 1..k :
               TrimStart(block.file_lines[f + j]) = TrimStart(block.diff_lines[j].line)

\* C34: when the file has, at or after the place the search is at, lines in
\* a row whose left-trimmed texts are those of a run of diff lines without
\* '+', every line of the run gets a file_line_num_idx, for runs of every
\* length up to the length of the file.  Stated for the runs a hunk begins
\* with, which are searched from the top of the file.
C34_RunsInFileAreLocated ==
    HasBlocks =>
        \A n \in DOMAIN SearchedBlocks :
            FirstOfHunk(SearchedBlocks, n) =>
                \A k \in DOMAIN SearchedBlocks[n].diff_lines :
                    LeadingRunInFile(SearchedBlocks[n], k)
                        => \A j \in 1..k :
                               SearchedBlocks[n].diff_lines[j].file_line_num_idx # None

\* ---------------------------------------------------------------------
\* indented lines: the file F_ax and the hunk of an edit of it have lines
\* that begin with spaces or a tab

MaxIndentLines == 2

IndentedLines == {<<"x">>, <<" ", "x">>, <<" ", " ", "x">>, <<Tab, "x">>, <<"y">>}

IndentedTexts ==
    { Text(lines, TRUE) : lines \in SeqsUpTo(IndentedLines, MaxIndentLines) \ {<< >>} }

IndentedHunks ==
    SeqsUpTo({ <<sign>> \o line : sign \in {"-", "+", " "}, line \in IndentedLines },
             MaxIndentLines)

\* lines 682-686: a fenced diff for F_ax arrives, with indented lines
ParseIndentedMessage ==
    /\ pm.pc = "idle"
    /\ \E hunk \in IndentedHunks, text \in IndentedTexts :
           LET content == FencedDiff(<<F_ax, F_ax>>, hunk)
           IN  pm' = [pc |-> "blocks", content |-> content, files |-> FilesWith(text),
                      line_num |-> Len(content) + 1, edits |-> GetEditHunks(content),
                      b |-> <<>>, result |-> <<>>]
    /\ pmUnchanged

IndentNext ==
    \/ ParseIndentedMessage
    \/ ParseMessageChunks

IndentSpec == ChunkInit /\ [][IndentNext]_vars

\* the line was located by search_diff_block_text_location, lines 358-359
Located(diff_line) ==
    diff_line.line_type # "Plus" /\ diff_line.correct_spaces_offset # None

\* the file line an edit chunk claims to remove with its j-th removed line
ClaimedLine(chunk, j) == FileLines(pm.files[chunk.file_name])[chunk.line1 - 1 + j]

\* C35: after Step 1 of normalize_diff_block every context or '-' line that
\* was located has the text of the file line at its file_line_num_idx,
\* whatever spaces or tabs it began with; so the lines_remove of an edit
\* chunk are the file lines the chunk claims to remove.
C35_LocatedLinesAreVerbatim ==
    /\ HasBlocks =>
           \A n \in DOMAIN LocatedBlocks : \A k \in DOMAIN LocatedBlocks[n].diff_lines :
               LET diff_line == LocatedBlocks[n].diff_lines[k]
               IN  Located(diff_line) =>
                       FixIdents(diff_line).line
                           = LocatedBlocks[n].file_lines[diff_line.file_line_num_idx[1] + 1]
    /\ Returned =>
           \A c \in DOMAIN Chunks :
               Chunks[c].file_action = "edit" =>
                   \A j \in DOMAIN Chunks[c].lines_remove :
                       /\ Chunks[c].line1 - 1 + j
                              \in DOMAIN FileLines(pm.files[Chunks[c].file_name])
                       /\ Chunks[c].lines_remove[j] = ClaimedLine(Chunks[c], j)

\* the message is one hunk, of context lines only, for an edit of a file
\* that exists, and parse_message has returned
ContextOnlyEdit ==
    /\ pm.pc = "done"
    /\ Len(pm.edits) = 1
    /\ pm.edits[1].before_path = Some(F_ax) /\ pm.edits[1].after_path = Some(F_ax)
    /\ F_ax \in DOMAIN pm.files
    /\ pm.edits[1].hunk # << >>
    /\ \A k \in DOMAIN pm.edits[1].hunk :
           ~StartsWith(pm.edits[1].hunk[k], <<"-">>) /\ ~StartsWith(pm.edits[1].hunk[k], <<"+">>)

\* the lines of the context-only hunk as the block has them, lines 285-289
ContextLines ==
    LET hunk == pm.edits[1].hunk
        has_any_line_no_leading_space == \E k \in DOMAIN hunk : ~StartsWith(hunk[k], <<" ">>)
    IN  [k \in DOMAIN hunk |->
            IF ~has_any_line_no_leading_space /\ StartsWith(hunk[k], <<" ">>)
            THEN Tail(hunk[k]) ELSE hunk[k]]

\* the lines appear in the file, one after the other, as they are
AppearVerbatim(diff_lines, file_lines) ==
    \E f \in 0..(Len(file_lines) - Len(diff_lines)) :
        \A j \in DOMAIN diff_lines : file_lines[f + j] = diff_lines[j]

\* C36: for an edit hunk of context lines only, the lines with a sign come
\* from the line diff between the region the hunk rewrites and the hunk: when
\* the lines of the hunk are in the file verbatim, one after the other,
\* parse_message returns no chunk, so no line outside the region is removed.
C36_VerbatimContextEmitsNothing ==
    (ContextOnlyEdit /\ AppearVerbatim(ContextLines, FileLines(pm.files[F_ax])))
        => pm.result = <<"Ok", << >> >>

(***************************************************************************)
(* StatusSpec: get_status, src/src/vecdb/vdb_highlev.rs lines 323-350,     *)
(* called while the vectorizer thread works.  The status it reads is the   *)
(* vstatus of the thread, bv.state and bv.queue_additions.                 *)
(***************************************************************************)
gsUnchanged ==
    UNCHANGED << registryVars, cacheVars, dirtyVars, resetVars, gcxVars, indexVars,
                 envVars, pc, registryTaskVars, gft, astVars, vecdbVars, patchVars,
                 splitVars, mem_ongoing, ou, ops >>

\* the state is reported as it is stored
StatusReportedMutantAsStored(vstatus_copy) == vstatus_copy

\* lines 346-349: what get_status returns for the copy it took
StatusReported(vstatus_copy) ==
    IF vstatus_copy.state = "done" /\ vstatus_copy.queue_additions
    THEN [vstatus_copy EXCEPT !.state = "parsing"]
    ELSE vstatus_copy

\* lines 324-337: Err when there is no VecDb, else the status is cloned
\* under the vstatus lock
GetStatusCall ==
    /\ gs.pc \in {"idle", "returned"}
    /\ gs' = IF vec_db = "none"
             THEN [pc |-> "returned", result |-> <<"Err", "VecDb is not initialized">>]
             ELSE [pc |-> "sizes",
                   vstatus_copy |-> [state |-> bv.state, queue_additions |-> bv.queue_additions]]
    /\ gsUnchanged

\* lines 338-349: the sizes are asked of the database and of the cache,
\* either of which may fail, and the copy is returned
GetStatusReturn ==
    /\ gs.pc = "sizes"
    /\ \E size_ok \in BOOLEAN :
         gs' = IF size_ok
               THEN [pc |-> "returned", vstatus_copy |-> gs.vstatus_copy,
                     result |-> <<"Ok", StatusReported(gs.vstatus_copy)>>]
               ELSE [pc |-> "returned", result |-> <<"Err", "size">>]
    /\ gsUnchanged

GetStatus ==
    \/ GetStatusCall
    \/ GetStatusReturn

StatusNext ==
    \/ CreateVecdb
    \/ EnqueueAll("reload")
    \/ Vectorizer
    \/ GetStatus

StatusSpec == Init /\ [][StatusNext]_vars

\* get_status has returned a status
StatusReturned == gs.pc = "returned" /\ gs.result[1] = "Ok"

\* C37: get_status never reports "done" with queue_additions true: it
\* reports "parsing" then; every other state is reported as it was stored,
\* and no step of get_status changes the stored vstatus.
C37_DoneWithAdditionsIsParsing ==
    [][(GetStatus /\ gs'.pc = "returned" /\ gs'.result[1] = "Ok")
          => LET stored == gs.vstatus_copy
                 reported == gs'.result[2]
             IN  /\ ~(reported.state = "done" /\ reported.queue_additions)
                 /\ (stored.state = "done" /\ stored.queue_additions)
                        => reported.state = "parsing"
                 /\ ~(stored.state = "done" /\ stored.queue_additions)
                        => reported.state = stored.state
                 /\ reported.queue_additions = stored.queue_additions
                 /\ bv' = bv]_vars

\* get_status has found "done" with additions to the queue and has reported
\* "parsing"
C37_Witness ==
    /\ StatusReturned
    /\ gs.vstatus_copy.state = "done" /\ gs.vstatus_copy.queue_additions
    /\ gs.result[2].state = "parsing"

(***************************************************************************)
(* OngoingSpec: ongoing_update_or_create, lines 447-476, called by two     *)
(* tasks at a time on the mem_ongoing table of the installed VecDb.        *)
(***************************************************************************)
ouUnchanged ==
    UNCHANGED << registryVars, cacheVars, dirtyVars, resetVars, gcxVars, indexVars,
                 envVars, pc, registryTaskVars, gft, astVars, vecdbVars, patchVars,
                 splitVars, gs, ops >>

\* the attempt is not counted
OngoingUpdatedMutantNoCount(ongoing, ongoing_progress, ongoing_action_new_sequence) ==
    [ongoing EXCEPT !.ongoing_progress = ongoing_progress,
                    !.ongoing_action_sequences = Append(@, ongoing_action_new_sequence)]

\* lines 460-464: the entry of the goal after one more attempt
OngoingUpdated(ongoing, ongoing_progress, ongoing_action_new_sequence) ==
    [ongoing EXCEPT !.ongoing_progress = ongoing_progress,
                    !.ongoing_action_sequences = Append(@, ongoing_action_new_sequence),
                    !.ongoing_attempt_n = @ + 1]

\* lines 466-472: the entry of a new goal
NewOngoing(goal, ongoing_progress, ongoing_action_new_sequence) ==
    [ongoing_goal |-> goal, ongoing_attempt_n |-> 1, ongoing_progress |-> ongoing_progress,
     ongoing_action_sequences |-> <<ongoing_action_new_sequence>>]

\* lines 460-474: the table after the call
OngoingMapAfter(ongoing_map, goal, ongoing_progress, ongoing_action_new_sequence) ==
    [g \in DOMAIN ongoing_map \cup {goal} |->
        IF g # goal THEN ongoing_map[g]
        ELSE IF goal \in DOMAIN ongoing_map
        THEN OngoingUpdated(ongoing_map[goal], ongoing_progress, ongoing_action_new_sequence)
        ELSE NewOngoing(goal, ongoing_progress, ongoing_action_new_sequence)]

\* lines 454-458: Err when there is no VecDb, else the call has the table
\* and is about to lock it; its action sequence is numbered by the call
OngoingCall(c) ==
    /\ ou.calls[c].pc \in {"idle", "returned"}
    /\ ou.started < MaxOngoingCalls
    /\ \E goal \in Goals :
         ou' = [calls |-> [d \in OngoingCallers |->
                             IF d # c THEN ou.calls[d]
                             ELSE IF vec_db = "none"
                             THEN [pc |-> "returned", result |-> "Err"]
                             ELSE [pc |-> "lock", goal |-> goal, seq |-> ou.started + 1]],
                started |-> ou.started + 1,
                updates |-> ou.updates]
    /\ UNCHANGED mem_ongoing
    /\ ouUnchanged

\* lines 459-475: under the StdMutex, which is held without an await, the
\* entry is updated or created
OngoingLocked(c) ==
    /\ ou.calls[c].pc = "lock"
    /\ mem_ongoing' = OngoingMapAfter(mem_ongoing, ou.calls[c].goal, ou.calls[c].seq,
                                      ou.calls[c].seq)
    /\ ou' = [calls |-> [d \in OngoingCallers |->
                            IF d # c THEN ou.calls[d]
                            ELSE [pc |-> "returned", result |-> "Ok"]],
              started |-> ou.started,
              updates |-> Append(ou.updates, <<ou.calls[c].goal, ou.calls[c].seq>>)]
    /\ ouUnchanged

OngoingUpdateOrCreate(c) ==
    \/ OngoingCall(c)
    \/ OngoingLocked(c)

OngoingNext ==
    \/ CreateVecdb
    \/ EnqueueAll("reload")
    \/ \E c \in OngoingCallers : OngoingUpdateOrCreate(c)

OngoingSpec == Init /\ [][OngoingNext]_vars

\* the action sequences of the first k updates that were made for the goal,
\* in the order of the updates
RECURSIVE SequencesFor(_, _)
SequencesFor(goal, k) ==
    IF k = 0 THEN << >>
    ELSE SequencesFor(goal, k - 1)
             \o (IF ou.updates[k][1] = goal THEN <<ou.updates[k][2]>> ELSE << >>)

\* C39: for every goal of mem_ongoing, ongoing_attempt_n is the number of
\* entries of ongoing_action_sequences and at least 1; after k calls for a
\* goal its attempt_n is k and its action sequences are those of the k
\* calls, in their order; a goal no call was made for has no entry, and the
\* calls for other goals change nothing of a goal's entry.
C39_AttemptsCountSequences ==
    \A g \in Goals :
        LET sequences == SequencesFor(g, Len(ou.updates))
        IN  /\ g \in DOMAIN mem_ongoing <=> sequences # << >>
            /\ g \in DOMAIN mem_ongoing =>
                   /\ mem_ongoing[g].ongoing_attempt_n = Len(mem_ongoing[g].ongoing_action_sequences)
                   /\ mem_ongoing[g].ongoing_attempt_n >= 1
                   /\ mem_ongoing[g].ongoing_attempt_n = Len(sequences)
                   /\ mem_ongoing[g].ongoing_action_sequences = sequences

\* two callers were under way at once for one goal, a call was made for the
\* other goal, and all have returned
C39_Witness ==
    /\ \A c \in OngoingCallers : ou.calls[c].pc = "returned"
    /\ DOMAIN mem_ongoing = Goals
    /\ \E g \in Goals : mem_ongoing[g].ongoing_attempt_n >= 2
    /\ \E k \in DOMAIN ou.updates : k > 1 /\ ou.updates[k][2] < ou.updates[k - 1][2]

\* the instances whose background tasks were started, lines 107-111: every
\* instance made, but the last one while its files are being enqueued
StartedTasks ==
    { DbNames[i] : i \in 1..rl.made } \ (IF rl.pc = "enqueue" THEN {DbNames[rl.made]} ELSE {})

\* the instances whose background tasks were started and not aborted
RunningTasks == StartedTasks \ rl.aborted

\* the constants the supervisor compares are those of the installed VecDb
SameConstants == vec_db # "none" /\ rl.db_model = rl.caps

\* C38: at every moment the background tasks of at most one VecDb are
\* running: the tasks of the previous holder are aborted before
\* _create_vecdb starts those of a new VecDb; an iteration that finds the
\* compared constants unchanged needs no reload, aborts nothing, creates
\* nothing and leaves gcx.vec_db as it is.
C38_OneGenerationOfTasks ==
    /\ [](Cardinality(RunningTasks) <= 1 /\ RunningTasks \subseteq {rl.tasks})
    /\ [][/\ (ReloadCheck /\ SameConstants) => ~rl'.need_reload
          /\ (ReloadAbort /\ ~rl.need_reload)
                 => /\ rl'.aborted = rl.aborted /\ rl'.tasks = rl.tasks
                    /\ rl'.pc = "sleep" /\ vec_db' = vec_db]_vars

\* the tasks of a second VecDb are running after those of the first were
\* aborted
C38_Witness ==
    /\ rl.made = 2
    /\ "db1" \in rl.aborted
    /\ rl.tasks = "db2" /\ RunningTasks = {"db2"}

\* the blocks diff_blocks_to_diff_chunks is called with, lines 690-707
ChunkedBlocks == SelectSeq(NormalizeDiffBlocks(LocatedBlocks, 1)[2], HasPlusOrMinus)

\* C40: in parse_message neither the assert_eq! of line 554 nor an expect of
\* lines 578-587 fails: every block with action "edit" that is made into a
\* chunk has the same path before and after, every '+' or '-' line of every
\* such block has a file_line_num_idx, and a chunk has a file_name_rename
\* exactly when its file_action is "rename".
C40_ChunkingCannotPanic ==
    Returned =>
        /\ \A n \in DOMAIN ChunkedBlocks :
               /\ ChunkedBlocks[n].action \in {"add", "remove", "rename", "edit"}
               /\ ChunkedBlocks[n].action = "edit"
                      => ChunkedBlocks[n].file_name_before = ChunkedBlocks[n].file_name_after
               /\ \A k \in DOMAIN ChunkedBlocks[n].diff_lines :
                      ChunkedBlocks[n].diff_lines[k].line_type # "Space"
                          => ChunkedBlocks[n].diff_lines[k].file_line_num_idx # None
        /\ \A c \in DOMAIN Chunks :
               Chunks[c].file_name_rename # None <=> Chunks[c].file_action = "rename"

\* parse_message has returned the chunk of an edit, with a removed line that
\* was located, and the chunk of a rename
C40_Witness ==
    /\ Returned
    /\ \E c \in DOMAIN Chunks :
           /\ Chunks[c].file_action = "edit" /\ Chunks[c].file_name_rename = None
           /\ Chunks[c].lines_remove # << >>
    /\ \E c \in DOMAIN Chunks :
           Chunks[c].file_action = "rename" /\ Chunks[c].file_name_rename = Some(F_m)

====
